---- MODULE Spec2Model ----
(***************************************************************************)
(* Wholesale Harmony backend: the tiered discount resolution of the        *)
(* pricing routes (src/routes/pricing.js) over the PricingRule document    *)
(* (src/pricingModel.js), and the customer-specific overlay                *)
(* (CustomerPricing, src/unnamed/part_004).                                *)
(*                                                                         *)
(* Conventions.                                                            *)
(*  - An optional JavaScript value (undefined / null, or a value) is a     *)
(*    sequence of length 0 or 1: <<>> is undefined, <<v>> is v.            *)
(*  - A Map or a plain object is a function whose DOMAIN is its key set.   *)
(*  - Percentages computed by a route are kept in hundredths of a percent  *)
(*    (PctScale), prices in hundredths of the currency unit of             *)
(*    regularPrice, so that every division by 100 of the code is exact.    *)
(***************************************************************************)
EXTENDS Integers, Sequences, FiniteSets, TLC

\* ------------------------------------------------------------------ bounds
MaxTiers == 2        \* longest tier list an admin payload carries
MaxTierQty == 2      \* largest tier threshold of a payload
MaxQty == 2          \* requested quantities range over -MaxQty..MaxQty
MaxRuleIds == 2      \* product rules ever added to the overlay
MaxTierIds == 2      \* tier rules ever added to the overlay
MaxClock == 2        \* the clock runs 0..MaxClock

\* the 100 of every "/ 100" and "* 100" of the routes
PctScale == 100

\* ------------------------------------------------------------------ values
Undefined == <<>>
Some(v) == <<v>>
Defined(x) == x # <<>>
Val(x) == x[1]

EmptyMap == [k \in {} |-> 0]
Has(m, k) == k \in DOMAIN m
\* Map.prototype.get / obj[key]: undefined when the key is missing
Get(m, k) == IF k \in DOMAIN m THEN Some(m[k]) ELSE Undefined
MapOf(k, v) == [x \in {k} |-> v]

Tier(q, d) == [qty |-> q, discount |-> d]
Disc(v, t) == [value |-> v, type |-> t]

LegacyMoqKeys == {"student", "esthetician", "salon"}
NullMoq == [k \in LegacyMoqKeys |-> Undefined]

\* ------------------------------------------------------------------ sorting
\* Array.prototype.sort is stable: equal keys keep their list order.
RECURSIVE InsertDesc(_, _)
InsertDesc(t, s) ==
  IF s = <<>> THEN <<t>>
  ELSE IF Head(s).qty >= t.qty THEN <<Head(s)>> \o InsertDesc(t, Tail(s))
  ELSE <<t>> \o s

RECURSIVE SortDescFrom(_, _)
SortDescFrom(s, acc) ==
  IF s = <<>> THEN acc ELSE SortDescFrom(Tail(s), InsertDesc(Head(s), acc))

\* .sort((a, b) => b.qty - a.qty)
SortByQtyDesc(s) == SortDescFrom(s, <<>>)

RECURSIVE InsertAsc(_, _)
InsertAsc(t, s) ==
  IF s = <<>> THEN <<t>>
  ELSE IF Head(s).qty <= t.qty THEN <<Head(s)>> \o InsertAsc(t, Tail(s))
  ELSE <<t>> \o s

RECURSIVE SortAscFrom(_, _)
SortAscFrom(s, acc) ==
  IF s = <<>> THEN acc ELSE SortAscFrom(Tail(s), InsertAsc(Head(s), acc))

\* .sort((a, b) => a.qty - b.qty)
SortByQtyAsc(s) == SortAscFrom(s, <<>>)

\* ------------------------------------------------------------------ the PricingRule document
\* One element of productOverrides with the defaults the schema declares:
\* type "percentage", value 0, empty Maps, moq.* null, tiers [].
\* customerTiers is the field the routes write and read; the schema declares
\* quantityTiers and no customerTiers path.
SchemaDefaults(productId) ==
  [productId |-> productId,
   type |-> "percentage",
   value |-> 0,
   enabledTypes |-> <<>>,
   customerDiscounts |-> EmptyMap,
   customerMOQ |-> Some(EmptyMap),
   customerTiers |-> Undefined,
   moq |-> NullMoq,
   tiers |-> <<>>]

\* productOverrides.find((p) => p.productId === productId)
FindOverride(overrides, productId) ==
  LET Match(p) == p.productId = productId
      hits == SelectSeq(overrides, Match)
  IN IF hits = <<>> THEN Undefined ELSE Some(Head(hits))

\* productOverrides.findIndex(...): 0 when there is none (indices are 1-based here)
FindIndex(overrides, productId) ==
  LET hits == {i \in 1..Len(overrides) : overrides[i].productId = productId}
  IN IF hits = {} THEN 0 ELSE CHOOSE i \in hits : \A j \in hits : i <= j

\* ------------------------------------------------------------------ classifier
\* if (tags.includes("student")) ... else if esthetician ... else if salon
AccountType(tags) ==
  IF "student" \in tags THEN "student"
  ELSE IF "esthetician" \in tags THEN "esthetician"
  ELSE IF "salon" \in tags THEN "salon"
  ELSE "consumer"

\* a gate that also lets pending customers through
IsApprovedOrPending(tags) ==
  "pro-pricing" \in tags \/ "pending-approval" \in tags

\* const isApproved = customerTags.includes("pro-pricing")
IsApproved(tags) == "pro-pricing" \in tags

\* ------------------------------------------------------------------ GET /cart-discount
\* const { quantity = 1 } = req.query; parseInt(quantity).  A request carries
\* the quantity as an integer numeral or leaves it out.
QuantityParam(raw) == IF Defined(raw) THEN Val(raw) ELSE 1

\* JavaScript truthiness of an optional number: neither undefined/null nor 0
Truthy(x) == Defined(x) /\ Val(x) # 0

\* let baseDiscount: the override's value when its type is "percentage",
\* the shop's defaultDiscount otherwise
BaseDiscount(found, defaultDiscount) ==
  IF Defined(found) /\ Val(found).type = "percentage"
  THEN Val(found).value
  ELSE defaultDiscount

\* let tiersToCheck
TiersToCheck(override, accountType) ==
  IF Defined(override.customerTiers)
     /\ Cardinality(DOMAIN Val(override.customerTiers)) > 0
  THEN LET typeTiers == Get(Val(override.customerTiers), accountType)
       IN IF Defined(typeTiers) /\ Len(Val(typeTiers)) > 0
          THEN Val(typeTiers)
          ELSE <<>>
  ELSE IF Len(override.tiers) > 0 THEN override.tiers ELSE <<>>

\* the filter without the sort: the first qualifying tier in list order
QualifyingTiersUnsorted(tiersToCheck, quantity) ==
  LET Qualifies(tier) == quantity >= tier.qty
  IN SelectSeq(tiersToCheck, Qualifies)

\* tiersToCheck.filter((tier) => parseInt(quantity) >= tier.qty).sort(desc)
QualifyingTiers(tiersToCheck, quantity) ==
  LET Qualifies(tier) == quantity >= tier.qty
  IN SortByQtyDesc(SelectSeq(tiersToCheck, Qualifies))

\* the two discounts added
AddedDiscount(baseDiscount, additionalDiscount) ==
  (baseDiscount + additionalDiscount) * PctScale

\* (1 - (1 - base/100) * (1 - additional/100)) * 100, in hundredths of a percent
StackedDiscount(baseDiscount, additionalDiscount) ==
  PctScale * PctScale - (PctScale - baseDiscount) * (PctScale - additionalDiscount)

\* override.moq?.[accountType]
LegacyMoq(override, key) ==
  IF key \in DOMAIN override.moq THEN override.moq[key] ELSE Undefined

\* const moq: the MOQ the gate looks up, undefined when it finds none
ResolvedMoq(found, accountType) ==
  IF Defined(found) /\ Defined(Val(found).customerMOQ)
  THEN Get(Val(Val(found).customerMOQ), accountType)
  ELSE IF Defined(found) /\ Truthy(LegacyMoq(Val(found), accountType))
  THEN LegacyMoq(Val(found), accountType)
  ELSE Undefined

\* let meetsMinimum: false when (moq && parseInt(quantity) < moq)
MeetsMinimum(found, accountType, quantity) ==
  LET moq == ResolvedMoq(found, accountType)
  IN ~(Truthy(moq) /\ quantity < Val(moq))

\* the early returns: { discount: 0, type: "none", message }
CartNone(message) ==
  [route |-> "cart-discount", discount |-> 0, type |-> "none",
   message |-> message, accountType |-> "consumer", quantity |-> Undefined,
   meetsMinimum |-> Undefined, baseDiscount |-> 0, tiersToCheck |-> <<>>,
   sortedTiers |-> <<>>, discountPercent |-> 0, moq |-> Undefined]

\* the handler's response; baseDiscount, tiersToCheck, sortedTiers,
\* discountPercent and moq are its locals, kept for the properties below
CartDiscount(customer, rule, productId, rawQuantity) ==
  IF customer.status = "guest" THEN CartNone("Not logged in")
  ELSE IF customer.status = "missing" THEN CartNone("Customer not found")
  ELSE IF customer.status = "error" THEN CartNone("Error fetching customer data")
  ELSE IF ~IsApproved(customer.tags)
  THEN CartNone("Customer not approved for wholesale pricing")
  ELSE IF ~rule.exists THEN CartNone("No pricing rules configured")
  ELSE
    LET quantity == QuantityParam(rawQuantity)
        accountType == AccountType(customer.tags)
        found == FindOverride(rule.productOverrides, productId)
        baseDiscount == BaseDiscount(found, rule.defaultDiscount)
        tiersToCheck == IF Defined(found)
                        THEN TiersToCheck(Val(found), accountType) ELSE <<>>
        sortedTiers == QualifyingTiers(tiersToCheck, quantity)
        discountPercent ==
          IF Defined(found)
          THEN IF Len(tiersToCheck) > 0 /\ Len(sortedTiers) > 0
               THEN StackedDiscount(baseDiscount, sortedTiers[1].discount)
               ELSE baseDiscount * PctScale
          ELSE rule.defaultDiscount * PctScale
        discountType ==
          IF Defined(found)
          THEN IF Len(tiersToCheck) > 0
               THEN IF Len(sortedTiers) > 0 THEN "tier" ELSE "base"
               ELSE "override"
          ELSE "default"
        meetsMinimum == MeetsMinimum(found, accountType, quantity)
    IN [route |-> "cart-discount",
        discount |-> IF meetsMinimum THEN discountPercent ELSE 0,
        type |-> discountType,
        message |-> IF meetsMinimum THEN "discount applied"
                    ELSE "Below minimum order quantity",
        accountType |-> accountType,
        quantity |-> Some(quantity),
        meetsMinimum |-> Some(meetsMinimum),
        baseDiscount |-> baseDiscount,
        tiersToCheck |-> tiersToCheck,
        sortedTiers |-> sortedTiers,
        discountPercent |-> discountPercent,
        moq |-> ResolvedMoq(found, accountType)]

\* ------------------------------------------------------------------ POST /bulk-update
\* an element of req.body.products: every field but productId is optional
NoUpdate(productId) ==
  [productId |-> productId, type |-> Undefined, value |-> Undefined,
   typeDiscounts |-> Undefined, moq |-> Undefined, customerMOQ |-> Undefined,
   typeTiers |-> Undefined, tiers |-> Undefined]

\* moq object -> customerMOQ Map: the entries that are not null
MoqMap(moq) ==
  [k \in {x \in DOMAIN moq : Defined(moq[x])} |-> Val(moq[k])]

\* typeTiers object -> customerTiers Map: the entries with a non-empty array
TiersMap(typeTiers) ==
  [k \in {x \in DOMAIN typeTiers : Len(typeTiers[x]) > 0} |-> typeTiers[k]]

\* "CONVERT FRONTEND FORMATS TO SCHEMA FORMATS": the update object after the
\* three conversions, as the fields of an override it carries
ConvertUpdate(update) ==
  [productId |-> update.productId,
   type |-> IF Defined(update.typeDiscounts) /\ ~Defined(update.type)
            THEN Some("percentage") ELSE update.type,
   value |-> IF Defined(update.typeDiscounts) /\ ~Defined(update.value)
             THEN Some(0) ELSE update.value,
   customerDiscounts |-> update.typeDiscounts,
   customerMOQ |-> IF Defined(update.moq)
                   THEN Some(MoqMap(Val(update.moq))) ELSE update.customerMOQ,
   customerTiers |-> IF Defined(update.typeTiers)
                     THEN Some(TiersMap(Val(update.typeTiers))) ELSE Undefined,
   moq |-> update.moq,
   tiers |-> update.tiers]

\* the legacy moq sub-document: the keys the payload leaves out are null
StoredMoq(moq) ==
  [k \in LegacyMoqKeys |-> IF k \in DOMAIN moq THEN moq[k] ELSE Undefined]

\* { ...existing, ...update }: a field of the update replaces the stored one
MergeOverride(existing, u) ==
  [productId |-> u.productId,
   type |-> IF Defined(u.type) THEN Val(u.type) ELSE existing.type,
   value |-> IF Defined(u.value) THEN Val(u.value) ELSE existing.value,
   enabledTypes |-> existing.enabledTypes,
   customerDiscounts |-> IF Defined(u.customerDiscounts)
                         THEN Val(u.customerDiscounts)
                         ELSE existing.customerDiscounts,
   customerMOQ |-> IF Defined(u.customerMOQ) THEN u.customerMOQ
                   ELSE existing.customerMOQ,
   customerTiers |-> IF Defined(u.customerTiers) THEN u.customerTiers
                     ELSE existing.customerTiers,
   moq |-> IF Defined(u.moq) THEN StoredMoq(Val(u.moq)) ELSE existing.moq,
   tiers |-> IF Defined(u.tiers) THEN Val(u.tiers) ELSE existing.tiers]

\* a forEach body that pushes a new override for every update
AlwaysPush(overrides, update) ==
  Append(overrides,
         MergeOverride(SchemaDefaults(update.productId), ConvertUpdate(update)))

\* products.forEach body: update the override in place or push a new one
ApplyUpdate(overrides, update) ==
  LET u == ConvertUpdate(update)
      existingIndex == FindIndex(overrides, update.productId)
  IN IF existingIndex > 0
     THEN [overrides EXCEPT ![existingIndex] = MergeOverride(@, u)]
     ELSE Append(overrides, MergeOverride(SchemaDefaults(update.productId), u))

RECURSIVE ApplyUpdates(_, _)
ApplyUpdates(overrides, products) ==
  IF products = <<>> THEN overrides
  ELSE ApplyUpdates(ApplyUpdate(overrides, Head(products)), Tail(products))

\* one productOverrides element as pricingRule.save() writes it: the
\* sub-document holds the paths its schema declares, and customerTiers is
\* not among them
StoredOverride(override) == [override EXCEPT !.customerTiers = Undefined]

\* await pricingRule.save()
SaveOverrides(overrides) ==
  [i \in 1..Len(overrides) |-> StoredOverride(overrides[i])]

\* ------------------------------------------------------------------ GET /product/:productId
\* regularPrice * (1 - d / 100), in hundredths
PercentOff(regularPrice, d) == regularPrice * (PctScale - d)

\* discount.type === "fixed" ? discount.value : regularPrice * (1 - value/100)
PriceWith(discount, regularPrice) ==
  IF discount.type = "fixed" THEN discount.value * PctScale
  ELSE PercentOff(regularPrice, discount.value)

\* let customerStatus: the defaults, or what the customer's tags give
CustomerStatus(customer, found) ==
  IF customer.status # "found"
  THEN [isLoggedIn |-> FALSE, isPending |-> FALSE, isApproved |-> FALSE,
        isRejected |-> FALSE, accountType |-> "consumer", moq |-> Undefined]
  ELSE
    LET accountType == AccountType(customer.tags)
        perType == IF Defined(found) /\ Defined(Val(found).customerMOQ)
                   THEN Get(Val(Val(found).customerMOQ), accountType)
                   ELSE Undefined
    IN [isLoggedIn |-> TRUE,
        isPending |-> "pending-approval" \in customer.tags,
        isApproved |-> IsApproved(customer.tags),
        isRejected |-> "rejected" \in customer.tags,
        accountType |-> accountType,
        moq |-> IF Defined(found) /\ Defined(Val(found).customerMOQ)
                THEN (IF Truthy(perType) THEN perType ELSE Undefined)
                ELSE IF Defined(found)
                THEN LegacyMoq(Val(found), accountType)
                ELSE Undefined]

\* customerTypes[0]?.id
FirstTypeId(customerTypes) ==
  IF Len(customerTypes) > 0 THEN Some(customerTypes[1].id) ELSE Undefined

\* let guestTypeId
GuestTypeId(settings) ==
  IF Defined(settings.guestPricingType)
  THEN LET IsGuest(t) == t.tag = Val(settings.guestPricingType)
                         \/ t.id = Val(settings.guestPricingType)
           hits == SelectSeq(settings.customerTypes, IsGuest)
       IN IF hits # <<>> THEN Some(Head(hits).id)
          ELSE FirstTypeId(settings.customerTypes)
  ELSE FirstTypeId(settings.customerTypes)

\* let discountToUse (per-type mode)
DiscountToUse(override, customerStatus, settings) ==
  LET own == IF customerStatus.isApproved
             THEN Get(override.customerDiscounts, customerStatus.accountType)
             ELSE Undefined
      guestTypeId == GuestTypeId(settings)
  IN IF Defined(own) THEN own
     ELSE IF Defined(guestTypeId)
     THEN Get(override.customerDiscounts, Val(guestTypeId))
     ELSE Undefined

\* let proPrice
ProPrice(found, customerStatus, settings, defaultDiscount, regularPrice) ==
  IF Defined(found)
  THEN IF Cardinality(DOMAIN Val(found).customerDiscounts) > 0
       THEN LET discountToUse == DiscountToUse(Val(found), customerStatus, settings)
            IN IF Defined(discountToUse)
               THEN Some(PriceWith(Val(discountToUse), regularPrice))
               ELSE Some(regularPrice * PctScale)
       ELSE Some(PriceWith(Disc(Val(found).value, Val(found).type), regularPrice))
  ELSE IF Len(settings.customerTypes) > 0
  THEN Some(PercentOff(regularPrice, settings.customerTypes[1].defaultDiscount))
  ELSE Some(PercentOff(regularPrice, defaultDiscount))

\* tiers.map(...).sort((a, b) => a.qty - b.qty)
DisplayTiers(tiers, regularPrice) ==
  SortByQtyAsc([i \in 1..Len(tiers) |->
                  [qty |-> tiers[i].qty, discount |-> tiers[i].discount,
                   price |-> PercentOff(regularPrice, tiers[i].discount)]])

\* let tiers
ProductTiers(found, customerStatus, regularPrice) ==
  IF customerStatus.isApproved /\ Defined(found)
  THEN LET override == Val(found)
       IN IF Defined(override.customerTiers)
             /\ Cardinality(DOMAIN Val(override.customerTiers)) > 0
          THEN LET typeTiers == Get(Val(override.customerTiers),
                                    customerStatus.accountType)
               IN IF Defined(typeTiers) /\ Len(Val(typeTiers)) > 0
                  THEN DisplayTiers(Val(typeTiers), regularPrice)
                  ELSE <<>>
          ELSE IF Len(override.tiers) > 0
          THEN DisplayTiers(override.tiers, regularPrice)
          ELSE <<>>
  ELSE <<>>

\* the handler's response; regularPrice is what Shopify returns for the product
GetProduct(customer, rule, settings, productId, regularPrice) ==
  IF ~rule.exists
  THEN [route |-> "product", success |-> FALSE]
  ELSE
    LET found == FindOverride(rule.productOverrides, productId)
        customerStatus == CustomerStatus(customer, found)
    IN [route |-> "product", success |-> TRUE, productId |-> productId,
        regularPrice |-> regularPrice,
        proPrice |-> ProPrice(found, customerStatus, settings,
                              rule.defaultDiscount, regularPrice),
        customerStatus |-> customerStatus,
        tiers |-> ProductTiers(found, customerStatus, regularPrice),
        moq |-> customerStatus.moq,
        hasOverride |-> Defined(found)]

\* ------------------------------------------------------------------ GET /products
TypeIds(customerTypes) == {customerTypes[i].id : i \in 1..Len(customerTypes)}

TypeById(customerTypes, id) ==
  LET i == CHOOSE j \in 1..Len(customerTypes) :
             /\ customerTypes[j].id = id
             /\ \A k \in 1..(j - 1) : customerTypes[k].id # id
  IN customerTypes[i]

\* a listing that shows the legacy value whenever the override has one
AppliedLegacyFirst(found, customerTypes) ==
  [id \in TypeIds(customerTypes) |->
     IF Defined(found)
     THEN [value |-> Val(found).value, type |-> Val(found).type, isCustom |-> TRUE]
     ELSE [value |-> TypeById(customerTypes, id).defaultDiscount,
           type |-> "percentage", isCustom |-> FALSE]]

\* let appliedDiscounts: one entry per registry type
AppliedDiscounts(found, customerTypes) ==
  [id \in TypeIds(customerTypes) |->
     LET type == TypeById(customerTypes, id)
     IN IF Defined(found) /\ Cardinality(DOMAIN Val(found).customerDiscounts) > 0
        THEN LET typeDiscount == Get(Val(found).customerDiscounts, id)
             IN IF Defined(typeDiscount)
                THEN [value |-> Val(typeDiscount).value,
                      type |-> Val(typeDiscount).type, isCustom |-> TRUE]
                ELSE [value |-> type.defaultDiscount, type |-> "percentage",
                      isCustom |-> FALSE]
        ELSE IF Defined(found)
        THEN [value |-> Val(found).value, type |-> Val(found).type,
              isCustom |-> (Val(found).type = "percentage"
                            /\ Val(found).value # type.defaultDiscount)
                           \/ Val(found).type = "fixed"]
        ELSE [value |-> type.defaultDiscount, type |-> "percentage",
              isCustom |-> FALSE]]

\* the listing reads firstType.id of customerTypes[0] without a guard
DisplayThrows(found, customerTypes) ==
  /\ Defined(found)
  /\ Cardinality(DOMAIN Val(found).customerDiscounts) > 0
  /\ Len(customerTypes) = 0

\* a display price taken from the last registry type instead of the first
DisplayLastType(found, customerTypes, regularPrice) ==
  IF Defined(found) /\ Cardinality(DOMAIN Val(found).customerDiscounts) > 0
  THEN LET lastType == customerTypes[Len(customerTypes)]
           lastTypeDiscount == Get(Val(found).customerDiscounts, lastType.id)
       IN IF Defined(lastTypeDiscount)
          THEN PriceWith(Val(lastTypeDiscount), regularPrice)
          ELSE PercentOff(regularPrice, lastType.defaultDiscount)
  ELSE IF Defined(found)
  THEN PriceWith(Disc(Val(found).value, Val(found).type), regularPrice)
  ELSE PercentOff(regularPrice,
                  IF Len(customerTypes) > 0
                  THEN customerTypes[Len(customerTypes)].defaultDiscount ELSE 0)

\* let proPrice (display price, first customer type)
DisplayProPrice(found, customerTypes, regularPrice) ==
  IF Defined(found) /\ Cardinality(DOMAIN Val(found).customerDiscounts) > 0
  THEN LET firstType == customerTypes[1]
           firstTypeDiscount == Get(Val(found).customerDiscounts, firstType.id)
       IN IF Defined(firstTypeDiscount)
          THEN PriceWith(Val(firstTypeDiscount), regularPrice)
          ELSE PercentOff(regularPrice, firstType.defaultDiscount)
  ELSE IF Defined(found)
  THEN PriceWith(Disc(Val(found).value, Val(found).type), regularPrice)
  ELSE PercentOff(regularPrice,
                  IF Len(customerTypes) > 0
                  THEN customerTypes[1].defaultDiscount ELSE 0)

\* moqValue of one registry type: [value, isDefault]; value may be null
MoqValue(found, type) ==
  IF Defined(found) /\ Defined(Val(found).customerMOQ)
     /\ Has(Val(Val(found).customerMOQ), type.id)
  THEN [value |-> Some(Val(Val(found).customerMOQ)[type.id]), isDefault |-> FALSE]
  ELSE IF Defined(found) /\ type.id \in DOMAIN Val(found).moq
  THEN [value |-> Val(found).moq[type.id], isDefault |-> FALSE]
  ELSE [value |-> Some(type.moqDefault), isDefault |-> TRUE]

\* const moqData: the types whose moqValue > 0
MoqData(found, customerTypes) ==
  LET entry(id) == MoqValue(found, TypeById(customerTypes, id))
      kept == {id \in TypeIds(customerTypes) :
                 Defined(entry(id).value) /\ Val(entry(id).value) > 0}
  IN [id \in kept |-> [value |-> Val(entry(id).value),
                       isDefault |-> entry(id).isDefault]]

\* const tiersData
TiersData(found, customerTypes) ==
  IF Defined(found) /\ Defined(Val(found).customerTiers)
     /\ Cardinality(DOMAIN Val(Val(found).customerTiers)) > 0
  THEN LET m == Val(Val(found).customerTiers)
       IN [id \in {x \in TypeIds(customerTypes) : Has(m, x) /\ Len(m[x]) > 0}
             |-> m[id]]
  ELSE EmptyMap

\* one element of the listing
ProductEntry(rule, customerTypes, productId, regularPrice) ==
  LET found == FindOverride(rule.productOverrides, productId)
  IN [id |-> productId, regularPrice |-> regularPrice,
      proPrice |-> DisplayProPrice(found, customerTypes, regularPrice),
      appliedDiscounts |-> AppliedDiscounts(found, customerTypes),
      moq |-> MoqData(found, customerTypes),
      tiers |-> TiersData(found, customerTypes),
      hasOverride |-> Defined(found)]

\* the handler's response over the products Shopify lists (id -> regular price):
\* a throw inside the map ends in the catch, status 500
GetProducts(rule, customerTypes, catalog) ==
  IF \E p \in DOMAIN catalog :
       DisplayThrows(FindOverride(rule.productOverrides, p), customerTypes)
  THEN [route |-> "products", status |-> 500]
  ELSE [route |-> "products", status |-> 200,
        products |-> [p \in DOMAIN catalog |->
                        ProductEntry(rule, customerTypes, p, catalog[p])],
        defaultDiscount |-> rule.defaultDiscount]

\* ------------------------------------------------------------------ CustomerPricing (the overlay)
\* Prices of calculatePrice are kept in 1/(100*100) of the currency unit: a
\* percentage rule and a percentage tier each divide by 100.
Money(x) == x * PctScale * PctScale

\* no floor
NoFloor(x) == x

\* Math.max(0, x)
Max0(x) == IF x > 0 THEN x ELSE 0

\* (!rule.variantId || rule.variantId === variantId)
VariantMatches(rule, variantId) ==
  ~Defined(rule.variantId) \/ rule.variantId = variantId

\* a rule that never expires
NeverExpired(rule, clock) == TRUE

\* (!rule.expiresAt || new Date(rule.expiresAt) > new Date())
NotExpired(rule, clock) ==
  ~Defined(rule.expiresAt) \/ Val(rule.expiresAt) > clock

\* Array.prototype.find: the first element in list order, if any
FirstOf(hits) == IF hits = <<>> THEN Undefined ELSE Some(Head(hits))

\* the last matching fixed_price rule instead of the first
LastFixedPriceRule(productRules, productId, variantId, clock) ==
  LET Test(rule) == /\ rule.productId = productId
                    /\ rule.ruleType = "fixed_price"
                    /\ VariantMatches(rule, variantId)
                    /\ NotExpired(rule, clock)
      hits == SelectSeq(productRules, Test)
  IN IF hits = <<>> THEN Undefined ELSE Some(hits[Len(hits)])

\* Step 1: const fixedPriceRule
FixedPriceRule(productRules, productId, variantId, clock) ==
  LET Test(rule) == /\ rule.productId = productId
                    /\ rule.ruleType = "fixed_price"
                    /\ VariantMatches(rule, variantId)
                    /\ NotExpired(rule, clock)
  IN FirstOf(SelectSeq(productRules, Test))

\* Step 2: const productRule
ProductRule(productRules, productId, variantId, clock) ==
  LET Test(rule) == /\ rule.productId = productId
                    /\ VariantMatches(rule, variantId)
                    /\ NotExpired(rule, clock)
  IN FirstOf(SelectSeq(productRules, Test))

RECURSIVE InsertQuantityDesc(_, _)
InsertQuantityDesc(t, s) ==
  IF s = <<>> THEN <<t>>
  ELSE IF Head(s).quantity >= t.quantity
  THEN <<Head(s)>> \o InsertQuantityDesc(t, Tail(s))
  ELSE <<t>> \o s

RECURSIVE SortQuantityDescFrom(_, _)
SortQuantityDescFrom(s, acc) ==
  IF s = <<>> THEN acc
  ELSE SortQuantityDescFrom(Tail(s), InsertQuantityDesc(Head(s), acc))

\* .sort((a, b) => b.quantity - a.quantity)
SortByQuantityDesc(s) == SortQuantityDescFrom(s, <<>>)

\* Step 4: const tierRule
TierRuleFor(tierRules, productId, quantity) ==
  LET Test(rule) ==
        /\ rule.appliesTo = "all_products" \/ rule.productId = Some(productId)
        /\ \E i \in 1..Len(rule.tiers) : quantity >= rule.tiers[i].quantity
  IN FirstOf(SelectSeq(tierRules, Test))

\* const applicableTier
ApplicableTier(tierRule, quantity) ==
  LET Test(tier) == quantity >= tier.quantity
  IN Head(SortByQuantityDesc(SelectSeq(tierRule.tiers, Test)))

\* the base discount taken off whatever the product rule leaves
PreTierCombined(pricing, productId, variantId, regularPrice, clock) ==
  LET productRule == ProductRule(pricing.productRules, productId, variantId, clock)
      afterRule ==
        IF Defined(productRule) /\ Val(productRule).ruleType = "percentage"
        THEN regularPrice * (PctScale - Val(productRule).value)
        ELSE IF Defined(productRule) /\ Val(productRule).ruleType = "fixed_amount"
        THEN Max0((regularPrice - Val(productRule).value) * PctScale)
        ELSE regularPrice * PctScale
  IN afterRule * (PctScale - pricing.baseDiscount)

\* Steps 2 and 3: the price before the tier step
PreTierPrice(pricing, productId, variantId, regularPrice, clock) ==
  LET productRule == ProductRule(pricing.productRules, productId, variantId, clock)
  IN IF Defined(productRule)
     THEN IF Val(productRule).ruleType = "percentage"
          THEN regularPrice * (PctScale - Val(productRule).value) * PctScale
          ELSE IF Val(productRule).ruleType = "fixed_amount"
          THEN Max0(Money(regularPrice - Val(productRule).value))
          ELSE Money(regularPrice)
     ELSE IF pricing.baseDiscount > 0
     THEN regularPrice * (PctScale - pricing.baseDiscount) * PctScale
     ELSE Money(regularPrice)

\* Step 4 applied to the price so far
AfterTier(pricing, productId, quantity, price) ==
  LET tierRule == TierRuleFor(pricing.tierRules, productId, quantity)
  IN IF Defined(tierRule)
     THEN LET applicableTier == ApplicableTier(Val(tierRule), quantity)
          IN IF applicableTier.discountType = "percentage"
             THEN (price * (PctScale - applicableTier.discount)) \div PctScale
             ELSE Max0(price - Money(applicableTier.discount))
     ELSE price

\* customerPricingSchema.methods.calculatePrice
CalculatePrice(pricing, productId, variantId, regularPrice, quantity, clock) ==
  LET fixedPriceRule ==
        FixedPriceRule(pricing.productRules, productId, variantId, clock)
      productRule == ProductRule(pricing.productRules, productId, variantId, clock)
  IN IF Defined(fixedPriceRule)
     THEN [finalPrice |-> Money(Val(fixedPriceRule).value),
           appliedRule |-> "fixed_price",
           ruleDetails |-> fixedPriceRule]
     ELSE [finalPrice |->
             Max0(AfterTier(pricing, productId, quantity,
                            PreTierPrice(pricing, productId, variantId,
                                         regularPrice, clock))),
           appliedRule |-> IF Defined(productRule) THEN Val(productRule).ruleType
                           ELSE IF pricing.baseDiscount > 0 THEN "base_discount"
                           ELSE "null",
           ruleDetails |-> IF Defined(productRule) THEN productRule
                           ELSE IF pricing.baseDiscount > 0
                           THEN Some([type |-> "base_discount",
                                      value |-> pricing.baseDiscount])
                           ELSE Undefined]

\* parseInt(quantity) || 1
CalcQuantity(raw) == IF Defined(raw) /\ Val(raw) # 0 THEN Val(raw) ELSE 1

\* POST /customer/:customerId/calculate
Calculate(pricing, productId, variantId, regularPrice, rawQuantity, clock) ==
  IF ~pricing.exists
  THEN [route |-> "calculate", finalPrice |-> Money(regularPrice),
        appliedRule |-> "null", ruleDetails |-> Undefined,
        productId |-> productId, variantId |-> variantId,
        regularPrice |-> regularPrice, quantity |-> rawQuantity, at |-> clock]
  ELSE LET r == CalculatePrice(pricing, productId, variantId, regularPrice,
                               CalcQuantity(rawQuantity), clock)
       IN [route |-> "calculate", finalPrice |-> r.finalPrice,
           appliedRule |-> r.appliedRule, ruleDetails |-> r.ruleDetails,
           productId |-> productId, variantId |-> variantId,
           regularPrice |-> regularPrice, quantity |-> rawQuantity, at |-> clock]

\* customerPricingSchema.methods.addProductRule: drop the rule of the same
\* product/variant, push the new one (which gets a fresh _id)
AddProductRule(pricing, ruleData) ==
  LET Other(rule) == ~(rule.productId = ruleData.productId
                       /\ rule.variantId = ruleData.variantId)
  IN [pricing EXCEPT
        !.productRules = Append(SelectSeq(pricing.productRules, Other),
                                [ruleData EXCEPT !.id = pricing.nextRuleId]),
        !.nextRuleId = pricing.nextRuleId + 1]

\* customerPricingSchema.methods.removeProductRule
RemoveProductRule(pricing, ruleId) ==
  LET Other(rule) == rule.id # ruleId
  IN [pricing EXCEPT !.productRules = SelectSeq(pricing.productRules, Other)]

\* this.productRules.id(ruleId)
RuleIndex(productRules, ruleId) ==
  LET hits == {i \in 1..Len(productRules) : productRules[i].id = ruleId}
  IN IF hits = {} THEN 0 ELSE CHOOSE i \in hits : \A j \in hits : i <= j

\* Object.assign(rule, updates)
AssignRule(rule, updates) ==
  [rule EXCEPT
     !.ruleType = IF Defined(updates.ruleType) THEN Val(updates.ruleType) ELSE @,
     !.value = IF Defined(updates.value) THEN Val(updates.value) ELSE @,
     !.expiresAt = IF Defined(updates.expiresAt) THEN Val(updates.expiresAt) ELSE @,
     !.variantId = IF Defined(updates.variantId) THEN Val(updates.variantId) ELSE @]

\* customerPricingSchema.methods.updateProductRule (the rule exists)
UpdateProductRule(pricing, ruleId, updates) ==
  [pricing EXCEPT
     !.productRules[RuleIndex(pricing.productRules, ruleId)] =
        AssignRule(@, updates)]

\* customerPricingSchema.methods.addTierRule
AddTierRule(pricing, tierData) ==
  [pricing EXCEPT
     !.tierRules = Append(pricing.tierRules,
                          [tierData EXCEPT !.id = pricing.nextTierId]),
     !.nextTierId = pricing.nextTierId + 1]

\* customerPricingSchema.methods.removeTierRule
RemoveTierRule(pricing, ruleId) ==
  LET Other(rule) == rule.id # ruleId
  IN [pricing EXCEPT !.tierRules = SelectSeq(pricing.tierRules, Other)]

\* ------------------------------------------------------------------ state
VARIABLES
  pricingRule,   \* the shop's PricingRule document: exists, defaultDiscount, productOverrides
  settings,      \* the shop's Settings: customerTypes (the registry), guestPricingType
  overlay,       \* one customer's CustomerPricing document
  cache,         \* the Redis entry customer-pricing:<customerId>, if any
  clock,         \* the time new Date() returns
  writers,       \* the POST /bulk-update handlers in flight: what each loaded
  shopify,       \* the customers Shopify holds: exists, tags
  req,           \* the last request
  resp           \* its response

vars == <<pricingRule, settings, overlay, cache, clock, writers, shopify, req, resp>>

NoRule == [exists |-> FALSE, defaultDiscount |-> 0, productOverrides |-> <<>>]
NoSettings == [customerTypes |-> <<>>, guestPricingType |-> Undefined]
NoOverlay == [exists |-> FALSE, baseDiscount |-> 0, productRules |-> <<>>,
              tierRules |-> <<>>, nextRuleId |-> 1, nextTierId |-> 1]

Writers == {"w1", "w2"}
Idle == [pc |-> "idle"]

CustomerIds == {"c1", "c2"}
\* a customer as registration leaves it: the account type's tag, awaiting
\* review
Registered(accountType) ==
  [exists |-> TRUE, tags |-> {accountType, "pending-approval"}]
Deleted == [exists |-> FALSE, tags |-> {}]

Init ==
  /\ writers = [w \in Writers |-> Idle]
  /\ shopify = [c \in CustomerIds |->
                  IF c = "c1" THEN Registered("student") ELSE Registered("salon")]
  /\ pricingRule = NoRule
  /\ settings = NoSettings
  /\ overlay = NoOverlay
  /\ cache = Undefined
  /\ clock = 0
  /\ req = [route |-> "none"]
  /\ resp = [route |-> "none"]

\* PricingRule.findOne(...) || new PricingRule / PricingRule.create
LoadOrCreateRule(rule) == IF rule.exists THEN rule ELSE [NoRule EXCEPT !.exists = TRUE]

\* ------------------------------------------------------------------ inputs
ProductIds == {"p1"}
RegularPrices == {40}
Catalog == [p \in ProductIds |-> 40]

ApprovalTagSets == {{}, {"pro-pricing"}, {"pending-approval"}, {"rejected"}}
Unknown(statuses) == {[status |-> s, tags |-> {}] : s \in statuses}
Tagged(typeTagSets) ==
  {[status |-> "found", tags |-> a \cup t] :
     a \in ApprovalTagSets, t \in typeTagSets}
\* no customerId, a customer Shopify does not know, a failed lookup, and
\* customers found with their tags
Customers ==
  Unknown({"guest", "missing", "error"})
  \cup Tagged({{}, {"student"}, {"salon"}, {"student", "salon"}})

Quantities == {Undefined} \cup {Some(q) : q \in (0 - MaxQty)..MaxQty}

TierSet == {Tier(q, 10 * q) : q \in 1..MaxTierQty}
TierLists == UNION {[1..n -> TierSet] : n \in 0..MaxTiers}

Student == [id |-> "student", tag |-> "student", defaultDiscount |-> 10, moqDefault |-> 0]
Salon == [id |-> "salon", tag |-> "salon", defaultDiscount |-> 20, moqDefault |-> 3]
Registries == {<<>>, <<Student, Salon>>, <<Salon, Student>>}

\* payloads of POST /bulk-update, one field group each
DiscountUpdates(p, discounts) ==
  {[NoUpdate(p) EXCEPT !.type = Some(d.type), !.value = Some(d.value)] :
     d \in discounts}

TypeDiscountUpdates(p) ==
  {[NoUpdate(p) EXCEPT !.typeDiscounts = Some(m)] :
     m \in {EmptyMap, MapOf("salon", Disc(30, "percentage")),
            MapOf("student", Disc(30, "fixed"))}}

LegacyTierUpdates(p) ==
  {[NoUpdate(p) EXCEPT !.tiers = Some(l)] : l \in TierLists}

TypeTierUpdates(p) ==
  {[NoUpdate(p) EXCEPT !.typeTiers = Some(m)] :
     m \in {EmptyMap, MapOf("student", <<Tier(1, 10)>>),
            MapOf("salon", <<Tier(2, 20)>>),
            MapOf("salon", <<Tier(1, 10), Tier(2, 20)>>),
            MapOf("salon", <<Tier(2, 20), Tier(1, 10)>>)}}

LegacyMoqUpdates(p) ==
  {[NoUpdate(p) EXCEPT !.moq = Some(m)] :
     m \in {MapOf("salon", Some(2)), MapOf("student", Some(2)),
            MapOf("salon", Undefined)}}

DynamicMoqUpdates(p) ==
  {[NoUpdate(p) EXCEPT !.customerMOQ = Some(m)] :
     m \in {EmptyMap, MapOf("salon", 0), MapOf("salon", 0 - 1),
            MapOf("student", 3)}}

\* ------------------------------------------------------------------ actions: the PricingRule routes
\* PUT /default (findOneAndUpdate with upsert)
PutDefault(discounts) ==
  \E d \in discounts :
    /\ pricingRule' = [pricingRule EXCEPT !.exists = TRUE, !.defaultDiscount = d]
    /\ req' = [route |-> "default", discount |-> d]
    /\ resp' = [route |-> "default", defaultDiscount |-> d]
    /\ UNCHANGED <<settings, overlay, cache, clock, writers, shopify>>

\* POST /bulk-update with req.body.products drawn from `batches`
BulkUpdate(batches) ==
  \E products \in batches :
    /\ pricingRule' =
         [LoadOrCreateRule(pricingRule) EXCEPT
            !.productOverrides = SaveOverrides(ApplyUpdates(@, products))]
    /\ req' = [route |-> "bulk-update", products |-> products]
    /\ resp' = [route |-> "bulk-update", updated |-> Len(products)]
    /\ UNCHANGED <<settings, overlay, cache, clock, writers, shopify>>

\* a reset that clears the whole list
ResetAllOverrides(overrides, productIds) == <<>>

\* productOverrides.filter((p) => !productIds.includes(p.productId))
ResetOverrides(overrides, productIds) ==
  LET Kept(p) == p.productId \notin productIds
  IN SelectSeq(overrides, Kept)

\* POST /bulk-update, first step: PricingRule.findOne gives the handler its
\* own copy of the document
BulkLoad(batches) ==
  \E w \in Writers, products \in batches :
    /\ writers[w].pc = "idle"
    /\ writers' = [writers EXCEPT ![w] =
                     [pc |-> "loaded", products |-> products,
                      loaded |-> pricingRule,
                      afterSave |-> \E v \in Writers : writers[v].pc = "saved"]]
    /\ req' = [route |-> "bulk-update", products |-> products]
    /\ resp' = [route |-> "none"]
    /\ UNCHANGED <<pricingRule, settings, overlay, cache, clock, shopify>>

\* what pricingRule.save() of a handler writes to the stored list: the array
\* changes the handler made to its copy, a push for a product its copy had no
\* override of and a set of the element at existingIndex for one it had
RECURSIVE SaveChanges(_, _, _)
SaveChanges(stored, copy, products) ==
  IF products = <<>> THEN stored
  ELSE LET update == Head(products)
           existingIndex == FindIndex(copy, update.productId)
           next == ApplyUpdate(copy, update)
           written == StoredOverride(
                        next[IF existingIndex > 0 THEN existingIndex ELSE Len(next)])
       IN SaveChanges(IF existingIndex > 0 /\ existingIndex <= Len(stored)
                      THEN [stored EXCEPT ![existingIndex] = written]
                      ELSE Append(stored, written),
                      next, Tail(products))

\* POST /bulk-update, second step: the forEach over the handler's copy and
\* pricingRule.save(). A handler that found no document inserts one, and the
\* unique index on shopDomain refuses a second document for the shop.
BulkSave ==
  \E w \in Writers :
    /\ writers[w].pc = "loaded"
    /\ LET copy == writers[w].loaded
           products == writers[w].products
       IN /\ req' = [route |-> "bulk-update", products |-> products]
          /\ IF ~copy.exists /\ pricingRule.exists
             THEN /\ pricingRule' = pricingRule
                  /\ resp' = [route |-> "bulk-update", status |-> 500]
                  /\ writers' = [writers EXCEPT ![w].pc = "failed"]
             ELSE /\ pricingRule' =
                       [LoadOrCreateRule(pricingRule) EXCEPT
                          !.productOverrides =
                             SaveChanges(@, copy.productOverrides, products)]
                  /\ resp' = [route |-> "bulk-update", updated |-> Len(products)]
                  /\ writers' = [writers EXCEPT ![w].pc = "saved"]
    /\ UNCHANGED <<settings, overlay, cache, clock, shopify>>

\* POST /reset
Reset(idSets) ==
  \E productIds \in idSets :
    /\ req' = [route |-> "reset", productIds |-> productIds]
    /\ IF pricingRule.exists
       THEN /\ pricingRule' =
                 [pricingRule EXCEPT
                    !.productOverrides = ResetOverrides(@, productIds)]
            /\ resp' = [route |-> "reset", removed |-> Cardinality(productIds)]
       ELSE /\ pricingRule' = pricingRule
            /\ resp' = [route |-> "reset", removed |-> 0]
    /\ UNCHANGED <<settings, overlay, cache, clock, writers, shopify>>

\* DELETE /product/:productId
DeleteProduct(ids) ==
  \E productId \in ids :
    /\ req' = [route |-> "delete-product", productId |-> productId]
    /\ resp' = [route |-> "delete-product", success |-> TRUE]
    /\ pricingRule' =
         IF pricingRule.exists
         THEN [pricingRule EXCEPT
                 !.productOverrides = ResetOverrides(@, {productId})]
         ELSE pricingRule
    /\ UNCHANGED <<settings, overlay, cache, clock, writers, shopify>>

\* req.body of PUT /product/:productId
PutBody(discount, moqUpdates) ==
  [discount |-> discount, moqUpdates |-> moqUpdates]

\* the override object after "UPDATE DISCOUNT" and "UPDATE MOQ" (tierUpdates
\* go to customerTiers, which the schema does not declare)
ApplyPut(override, body) ==
  LET perType == IF Defined(body.discount) THEN Val(body.discount).perType
                 ELSE EmptyMap
      moqUpdates == IF Defined(body.moqUpdates) THEN Val(body.moqUpdates)
                    ELSE EmptyMap
      oldMoq == IF Defined(override.customerMOQ) THEN Val(override.customerMOQ)
                ELSE EmptyMap
      keptMoq == (DOMAIN oldMoq \ DOMAIN moqUpdates)
                 \cup {k \in DOMAIN moqUpdates : moqUpdates[k] > 0}
  IN [override EXCEPT
        !.customerDiscounts =
           [k \in DOMAIN @ \cup DOMAIN perType |->
              IF k \in DOMAIN perType THEN perType[k] ELSE @[k]],
        !.value = IF Defined(body.discount) /\ DOMAIN perType = {}
                  THEN Val(body.discount).value ELSE @,
        !.type = IF Defined(body.discount) /\ DOMAIN perType = {}
                 THEN Val(body.discount).type ELSE @,
        !.customerMOQ =
           IF Defined(body.moqUpdates)
           THEN Some([k \in keptMoq |->
                        IF k \in DOMAIN moqUpdates THEN moqUpdates[k]
                        ELSE oldMoq[k]])
           ELSE @]

\* "FIND OR CREATE PRODUCT OVERRIDE" and the updates: for a product without
\* an override the handler pushes the object it built, the array casts it
\* into a new sub-document, and the updates that follow change the object
\* and not the sub-document that is saved
PutOverrides(overrides, productId, body) ==
  LET index == FindIndex(overrides, productId)
  IN IF index = 0
     THEN Append(overrides, SchemaDefaults(productId))
     ELSE [overrides EXCEPT ![index] = ApplyPut(@, body)]

\* PUT /product/:productId
PutProduct(ids, bodies) ==
  \E productId \in ids, body \in bodies :
    /\ req' = [route |-> "put-product", productId |-> productId, body |-> body]
    /\ resp' = [route |-> "put-product", success |-> TRUE]
    /\ pricingRule' =
         [LoadOrCreateRule(pricingRule) EXCEPT
            !.productOverrides =
               SaveOverrides(PutOverrides(@, productId, body))]
    /\ UNCHANGED <<settings, overlay, cache, clock, writers, shopify>>

\* PUT /api/settings: const { customerTypes, shop } = req.body, nothing else
\* of the body is read or stored
PutSettings(registries, guestTypes) ==
  \E customerTypes \in registries, guestPricingType \in guestTypes :
    /\ settings' = [settings EXCEPT !.customerTypes = customerTypes]
    /\ req' = [route |-> "settings", customerTypes |-> customerTypes,
                guestPricingType |-> guestPricingType]
    /\ resp' = [route |-> "settings"]
    /\ UNCHANGED <<pricingRule, overlay, cache, clock, writers, shopify>>

\* GET /cart-discount
CartDiscountReq(customers, quantities) ==
  \E customer \in customers, productId \in ProductIds, quantity \in quantities :
    /\ req' = [route |-> "cart-discount", customer |-> customer,
                productId |-> productId, quantity |-> quantity]
    /\ resp' = CartDiscount(customer, pricingRule, productId, quantity)
    /\ UNCHANGED <<pricingRule, settings, overlay, cache, clock, writers, shopify>>

\* GET /product/:productId
GetProductReq(customers) ==
  \E customer \in customers, productId \in ProductIds :
    /\ req' = [route |-> "product", customer |-> customer,
                productId |-> productId]
    /\ resp' = GetProduct(customer, pricingRule, settings, productId,
                          Catalog[productId])
    /\ UNCHANGED <<pricingRule, settings, overlay, cache, clock, writers, shopify>>

\* GET /products (creates the PricingRule document when there is none)
GetProductsReq ==
  /\ pricingRule' = LoadOrCreateRule(pricingRule)
  /\ req' = [route |-> "products"]
  /\ resp' = GetProducts(pricingRule', settings.customerTypes, Catalog)
  /\ UNCHANGED <<settings, overlay, cache, clock, writers, shopify>>

Single(updates) == {<<u>> : u \in updates}

\* ------------------------------------------------------------------ actions: the CustomerPricing routes
\* CustomerPricing.getOrCreate
GetOrCreate(pricing) == [pricing EXCEPT !.exists = TRUE]

RuleBody(variantId, ruleType, value, expiresAt) ==
  [productId |-> "p1", variantId |-> variantId, ruleType |-> ruleType,
   value |-> value, expiresAt |-> expiresAt, id |-> 0]

\* bodies of POST product-rule: accepted ones and one per validation branch
RuleBodies ==
  {RuleBody(Undefined, "fixed_price", 10, Undefined),
   RuleBody(Some("v1"), "fixed_price", 30, Some(1)),
   RuleBody(Some("v1"), "percentage", 50, Undefined),
   RuleBody(Undefined, "fixed_amount", 50, Undefined)}

RuleTypes == {"percentage", "fixed_amount", "fixed_price"}

\* POST /customer/:customerId/product-rule
PostProductRule(bodies) ==
  \E body \in bodies :
    /\ overlay.nextRuleId <= MaxRuleIds
    /\ req' = [route |-> "post-product-rule", body |-> body]
    /\ IF body.ruleType \notin RuleTypes
          \/ body.value <= 0
          \/ (body.ruleType = "percentage" /\ body.value > 100)
       THEN /\ resp' = [route |-> "post-product-rule", status |-> 400]
            /\ UNCHANGED <<overlay, cache>>
       ELSE /\ overlay' = AddProductRule(GetOrCreate(overlay), body)
            /\ cache' = Undefined
            /\ resp' = [route |-> "post-product-rule", status |-> 200]
    /\ UNCHANGED <<pricingRule, settings, clock, writers, shopify>>

NoUpdates ==
  [ruleType |-> Undefined, value |-> Undefined, expiresAt |-> Undefined,
   variantId |-> Undefined]

RuleUpdates ==
  {[NoUpdates EXCEPT !.ruleType = Some("fixed_price")],
   [NoUpdates EXCEPT !.value = Some(150)]}

\* PUT /customer/:customerId/product-rule/:ruleId
PutProductRule(updateSet) ==
  \E ruleId \in 1..MaxRuleIds, updates \in updateSet :
    /\ req' = [route |-> "put-product-rule", ruleId |-> ruleId,
                updates |-> updates]
    /\ IF ~overlay.exists
       THEN /\ resp' = [route |-> "put-product-rule", status |-> 404]
            /\ UNCHANGED <<overlay, cache>>
       ELSE IF \/ (Defined(updates.ruleType) /\ Val(updates.ruleType) \notin RuleTypes)
               \/ (Defined(updates.value) /\ Val(updates.value) <= 0)
       THEN /\ resp' = [route |-> "put-product-rule", status |-> 400]
            /\ UNCHANGED <<overlay, cache>>
       ELSE IF RuleIndex(overlay.productRules, ruleId) = 0
       THEN /\ resp' = [route |-> "put-product-rule", status |-> 500]
            /\ UNCHANGED <<overlay, cache>>
       ELSE /\ overlay' = UpdateProductRule(overlay, ruleId, updates)
            /\ cache' = Undefined
            /\ resp' = [route |-> "put-product-rule", status |-> 200]
    /\ UNCHANGED <<pricingRule, settings, clock, writers, shopify>>

\* DELETE /customer/:customerId/product-rule/:ruleId
DeleteProductRule ==
  \E ruleId \in 1..MaxRuleIds :
    /\ req' = [route |-> "delete-product-rule", ruleId |-> ruleId]
    /\ IF ~overlay.exists
       THEN /\ resp' = [route |-> "delete-product-rule", status |-> 404]
            /\ UNCHANGED <<overlay, cache>>
       ELSE /\ overlay' = RemoveProductRule(overlay, ruleId)
            /\ cache' = Undefined
            /\ resp' = [route |-> "delete-product-rule", status |-> 200]
    /\ UNCHANGED <<pricingRule, settings, clock, writers, shopify>>

TierStep(quantity, discount, discountType) ==
  [quantity |-> quantity, discount |-> discount, discountType |-> discountType]

TierBody(appliesTo, productId, tiers) ==
  [appliesTo |-> appliesTo, productId |-> productId, tiers |-> tiers, id |-> 0]

TierBodies ==
  {TierBody("all_products", Some("p1"), <<TierStep(2, 10, "percentage")>>),
   TierBody("all_products", Undefined, <<>>)}

\* bodies of POST tier-rule for two rules that both apply to p1
TwoTierBodies ==
  {TierBody("all_products", Some("p1"), <<TierStep(2, 10, "percentage")>>),
   TierBody("specific_product", Some("p1"), <<TierStep(1, 5, "fixed_amount")>>),
   TierBody("all_products", Undefined, <<TierStep(0, 10, "percentage")>>)}

\* POST /customer/:customerId/tier-rule
PostTierRule(bodies) ==
  \E body \in bodies :
    /\ overlay.nextTierId <= MaxTierIds
    /\ req' = [route |-> "post-tier-rule", body |-> body]
    /\ IF \/ Len(body.tiers) = 0
          \/ \E i \in 1..Len(body.tiers) :
               \/ body.tiers[i].quantity <= 0
               \/ body.tiers[i].discount <= 0
               \/ (body.tiers[i].discountType = "percentage"
                   /\ body.tiers[i].discount > 100)
       THEN /\ resp' = [route |-> "post-tier-rule", status |-> 400]
            /\ UNCHANGED overlay
       ELSE /\ overlay' =
                 AddTierRule(GetOrCreate(overlay),
                             [body EXCEPT
                                !.productId = IF body.appliesTo = "specific_product"
                                              THEN body.productId ELSE Undefined])
            /\ resp' = [route |-> "post-tier-rule", status |-> 200]
    /\ UNCHANGED <<pricingRule, settings, cache, clock, writers, shopify>>

\* DELETE /customer/:customerId/tier-rule/:ruleId
DeleteTierRule ==
  \E ruleId \in 1..MaxTierIds :
    /\ req' = [route |-> "delete-tier-rule", ruleId |-> ruleId]
    /\ IF ~overlay.exists
       THEN /\ resp' = [route |-> "delete-tier-rule", status |-> 404]
            /\ UNCHANGED overlay
       ELSE /\ overlay' = RemoveTierRule(overlay, ruleId)
            /\ resp' = [route |-> "delete-tier-rule", status |-> 200]
    /\ UNCHANGED <<pricingRule, settings, cache, clock, writers, shopify>>

\* customerTypes.find((type) => customerTags.includes(type.tag))
AssignedType(customerTypes, tags) ==
  LET Test(type) == type.tag \in tags
  IN FirstOf(SelectSeq(customerTypes, Test))

\* GET /customer/:customerId: the cached response if there is one, else the
\* document with baseDiscount refreshed from the customer's type, then cached
GetCustomer(tagSets) ==
  \E tags \in tagSets :
    /\ req' = [route |-> "customer", tags |-> tags]
    /\ IF Defined(cache)
       THEN /\ resp' = Val(cache)
            /\ UNCHANGED <<overlay, cache>>
       ELSE LET assignedType == AssignedType(settings.customerTypes, tags)
                baseDiscount == IF Defined(assignedType)
                                THEN Val(assignedType).defaultDiscount ELSE 0
                pricing == [GetOrCreate(overlay) EXCEPT !.baseDiscount = baseDiscount]
                response == [route |-> "customer", status |-> 200,
                             baseDiscount |-> baseDiscount,
                             productRules |-> pricing.productRules,
                             tierRules |-> pricing.tierRules]
            IN /\ overlay' = pricing
               /\ cache' = Some(response)
               /\ resp' = response
    /\ UNCHANGED <<pricingRule, settings, clock, writers, shopify>>

\* the Redis entry reaches its TTL
CacheExpires ==
  /\ Defined(cache)
  /\ cache' = Undefined
  /\ req' = [route |-> "none"]
  /\ resp' = [route |-> "none"]
  /\ UNCHANGED <<pricingRule, settings, overlay, clock, writers, shopify>>

\* POST /customer/:customerId/calculate
CalculateReq(variantIds, quantities) ==
  \E productId \in ProductIds, variantId \in variantIds, quantity \in quantities :
    /\ req' = [route |-> "calculate", productId |-> productId,
                variantId |-> variantId, regularPrice |-> Catalog[productId],
                quantity |-> quantity]
    /\ resp' = Calculate(overlay, productId, variantId, Catalog[productId],
                         quantity, clock)
    /\ UNCHANGED <<pricingRule, settings, overlay, cache, clock, writers, shopify>>

\* time passes
Tick ==
  /\ clock < MaxClock
  /\ clock' = clock + 1
  /\ req' = [route |-> "none"]
  /\ resp' = [route |-> "none"]
  /\ UNCHANGED <<pricingRule, settings, overlay, cache, writers, shopify>>

\* ------------------------------------------------------------------ specifications
TierCustomers == Unknown({"guest"}) \cup Tagged({{"salon"}})

\* quantity tiers: discount, legacy and per-type tier lists, one MOQ
NextTiers ==
  \/ BulkUpdate(Single(DiscountUpdates("p1", {Disc(20, "percentage"),
                                              Disc(100, "percentage")})))
  \/ BulkUpdate(Single(LegacyTierUpdates("p1")))
  \/ BulkUpdate(Single(TypeTierUpdates("p1")))
  \/ BulkUpdate(Single({[NoUpdate("p1") EXCEPT !.moq = Some(MapOf("salon", Some(2)))]}))
  \/ CartDiscountReq(TierCustomers, Quantities)
  \/ GetProductReq(TierCustomers)

SpecTiers == Init /\ [][NextTiers]_vars

MoqCustomers == Tagged({{"student"}, {"salon"}})

\* minimum order quantities: legacy and per-type MOQs, the registry defaults
NextMoq ==
  \/ BulkUpdate(Single(LegacyMoqUpdates("p1")))
  \/ BulkUpdate(Single(DynamicMoqUpdates("p1")))
  \/ PutSettings(Registries, {Undefined})
  \/ CartDiscountReq(MoqCustomers, Quantities)
  \/ GetProductReq(MoqCustomers)
  \/ GetProductsReq

SpecMoq == Init /\ [][NextMoq]_vars

DiscountCustomers ==
  Unknown({"guest"})
  \cup Tagged({{}, {"student"}, {"salon"}, {"student", "salon"}})

\* base discounts: shop default, legacy and per-type discounts, registry
NextDiscounts ==
  \/ PutDefault({5})
  \/ BulkUpdate(Single(DiscountUpdates("p1", {Disc(15, "percentage"),
                                              Disc(25, "fixed"),
                                              Disc(100, "percentage"),
                                              Disc(150, "percentage")})))
  \/ BulkUpdate(Single(TypeDiscountUpdates("p1")))
  \/ Reset({{"p1"}})
  \/ PutSettings(Registries, {Undefined, Some("salon")})
  \/ CartDiscountReq(DiscountCustomers, {Some(1)})
  \/ GetProductReq(DiscountCustomers)
  \/ GetProductsReq

SpecDiscounts == Init /\ [][NextDiscounts]_vars

\* the overlay: product rules, tier rules, base discount, the clock
NextOverlay ==
  \/ PutSettings({<<Salon, Student>>}, {Undefined})
  \/ GetCustomer({{"salon"}})
  \/ PostProductRule(RuleBodies)
  \/ PutProductRule(RuleUpdates)
  \/ DeleteProductRule
  \/ PostTierRule(TierBodies)
  \/ CalculateReq({Undefined, Some("v1")}, {Some(0), Some(2)})
  \/ Tick

SpecOverlay == Init /\ [][NextOverlay]_vars

\* the overlay's tier rules: several rules applying to one product
NextOverlayTiers ==
  \/ PostProductRule({RuleBody(Undefined, "percentage", 50, Undefined)})
  \/ DeleteProductRule
  \/ PostTierRule(TwoTierBodies)
  \/ DeleteTierRule
  \/ CalculateReq({Undefined}, {Some(1), Some(2)})

SpecOverlayTiers == Init /\ [][NextOverlayTiers]_vars

\* the Redis entry customer-pricing:<customerId> and the writes to the overlay
NextCache ==
  \/ GetCustomer({{"salon"}})
  \/ PostProductRule({RuleBody(Undefined, "percentage", 50, Undefined),
                      RuleBody(Some("v1"), "fixed_price", 30, Undefined)})
  \/ PutProductRule({[NoUpdates EXCEPT !.value = Some(20)]})
  \/ DeleteProductRule
  \/ PostTierRule(TierBodies)
  \/ DeleteTierRule
  \/ CacheExpires

SpecCache == Init /\ [][NextCache]_vars

PutBodies ==
  {PutBody(Some([perType |-> EmptyMap, value |-> 15, type |-> "percentage"]),
           Undefined),
   PutBody(Some([perType |-> MapOf("salon", Disc(30, "percentage")),
                 value |-> 0, type |-> "percentage"]), Undefined),
   PutBody(Undefined, Some(MapOf("salon", 2)))}

\* req.body.products naming one product twice
Twice(p) ==
  {<<[NoUpdate(p) EXCEPT !.type = Some("fixed"), !.value = Some(25)],
     [NoUpdate(p) EXCEPT !.moq = Some(MapOf("salon", Some(2)))]>>}

\* the override list of two products: writes, resets and a read
NextOverrides ==
  \/ BulkUpdate(Single(DiscountUpdates("p1", {Disc(15, "percentage")}))
                \cup Single(DiscountUpdates("p2", {Disc(25, "fixed")})))
  \/ BulkUpdate(Twice("p1") \cup Twice("p2"))
  \/ PutProduct({"p1", "p2"}, PutBodies)
  \/ Reset({{}, {"p1"}, {"p2"}, {"p1", "p2"}})
  \/ DeleteProduct({"p1", "p2"})
  \/ PutSettings({<<>>, <<Salon, Student>>}, {Undefined})
  \/ GetProductReq(Unknown({"guest"}) \cup Tagged({{"salon"}}))

SpecOverrides == Init /\ [][NextOverrides]_vars

\* payloads of the handlers that run interleaved
RaceUpdates ==
  Single(DiscountUpdates("p1", {Disc(15, "percentage"), Disc(25, "fixed")}))
  \cup Single({[NoUpdate("p1") EXCEPT !.moq = Some(MapOf("salon", Some(2)))]})
  \cup Single(DiscountUpdates("p2", {Disc(25, "fixed")}))

\* no handler of POST /bulk-update is between its load and its save
Quiet == \A w \in Writers : writers[w].pc = "idle"

\* two POST /bulk-update handlers whose load and save steps interleave, after
\* a history of requests run one at a time
NextRace ==
  \/ Quiet /\ GetProductsReq
  \/ Quiet /\ BulkUpdate(Single(DiscountUpdates("p1", {Disc(20, "percentage")})))
  \/ Quiet /\ Reset({{"p1"}})
  \/ BulkLoad(RaceUpdates)
  \/ BulkSave

SpecRace == Init /\ [][NextRace]_vars

\* ------------------------------------------------------------------ properties: quantity tiers
IsCart == req.route = "cart-discount"
\* the request got past the early returns
IsCartResolved == IsCart /\ Defined(resp.quantity)
IsProduct == req.route = "product" /\ resp.success
CurrentOverride == FindOverride(pricingRule.productOverrides, req.productId)
TiersOf(list) == {list[i] : i \in 1..Len(list)}

\* C2 as stated: whenever a tier qualifies, the returned discount is
\* 100 * (1 - (1 - B/100) * (1 - T/100)) for B, T in 0..100, and it is
\* strictly greater than B whenever T > 0.
C2_StackingAsStated ==
  (IsCartResolved /\ resp.type = "tier") =>
    LET B == resp.baseDiscount
        T == resp.sortedTiers[1].discount
    IN (B \in 0..100 /\ T \in 0..100) =>
         /\ resp.discount = 100 * 100 - (100 - B) * (100 - T)
         /\ T > 0 => resp.discount > 100 * B

\* C2 amended: whenever a tier qualifies and the MOQ is met, the returned
\* discount is 100 * (1 - (1 - B/100) * (1 - T/100)) for B, T in 0..100, and
\* it is strictly greater than B whenever T > 0 and B < 100.
C2_Stacking ==
  (IsCartResolved /\ resp.type = "tier" /\ resp.meetsMinimum = Some(TRUE)) =>
    LET B == resp.baseDiscount
        T == resp.sortedTiers[1].discount
    IN (B \in 0..100 /\ T \in 0..100) =>
         /\ resp.discount = 100 * 100 - (100 - B) * (100 - T)
         /\ (T > 0 /\ B < 100) => resp.discount > 100 * B

\* a 10% tier on a 20% base gives 28%
C2_Witness ==
  /\ IsCartResolved /\ resp.type = "tier" /\ resp.meetsMinimum = Some(TRUE)
  /\ resp.baseDiscount = 20
  /\ resp.sortedTiers[1].discount = 10
  /\ resp.discount = 2800

\* C3: the tier applied is one of the list with the largest qty not exceeding
\* the quantity, whatever the order of the list; no tier above the quantity
\* is applied; below every tier's qty the result is the base discount.
C3_TierSelection ==
  IsCartResolved =>
    LET q == Val(resp.quantity)
        list == resp.tiersToCheck
        qualifying == {t \in TiersOf(list) : t.qty <= q}
    IN /\ resp.type = "tier" <=> qualifying # {}
       /\ qualifying # {} =>
            \E t \in qualifying :
              /\ \A u \in qualifying : u.qty <= t.qty
              /\ resp.sortedTiers[1] = t
              /\ resp.discountPercent
                   = 100 * 100 - (100 - resp.baseDiscount) * (100 - t.discount)
       /\ qualifying = {} => resp.discountPercent = 100 * resp.baseDiscount

\* the list holds the larger tier last and it is the one applied
C3_Witness ==
  /\ IsCartResolved /\ resp.type = "tier"
  /\ Len(resp.tiersToCheck) = 2
  /\ resp.tiersToCheck[1].qty < resp.tiersToCheck[2].qty
  /\ resp.sortedTiers[1] = resp.tiersToCheck[2]

\* the tier list C4 names: the type's own list when present and non-empty,
\* else the legacy list
ClaimedTierSource(override, accountType) ==
  LET own == IF Defined(override.customerTiers)
             THEN Get(Val(override.customerTiers), accountType)
             ELSE Undefined
  IN IF Defined(own) /\ Len(Val(own)) > 0 THEN Val(own) ELSE override.tiers

\* the override of a product as the last payload of POST /bulk-update
\* configured it: the stored override with the per-type tier lists just sent
ConfiguredOverride(stored, update) ==
  IF Defined(update.typeTiers)
  THEN [stored EXCEPT !.customerTiers = Some(TiersMap(Val(update.typeTiers)))]
  ELSE stored

\* C4 as stated, for a request that follows the POST /bulk-update configuring
\* the product: the tier list used is the type's per-type list if present and
\* non-empty, otherwise the legacy list if non-empty, otherwise none.
C4_TierSourceAsStated ==
  [][(/\ req.route = "bulk-update"
      /\ req'.route \in {"cart-discount", "product"}
      /\ req.products[Len(req.products)].productId = req'.productId
      /\ Defined(FindOverride(pricingRule'.productOverrides, req'.productId)))
     => LET configured ==
              ConfiguredOverride(
                Val(FindOverride(pricingRule'.productOverrides, req'.productId)),
                req.products[Len(req.products)])
        IN /\ (req'.route = "cart-discount" /\ Defined(resp'.quantity))
                => resp'.tiersToCheck
                     = ClaimedTierSource(configured, resp'.accountType)
           /\ (req'.route = "product" /\ resp'.success
                /\ resp'.customerStatus.isApproved)
                => {Tier(t.qty, t.discount) : t \in TiersOf(resp'.tiers)}
                     = TiersOf(ClaimedTierSource(
                                 configured, resp'.customerStatus.accountType))]_vars

\* C7: a requester who is not approved (guest, pending, rejected) gets no tier
\* discount from GET /cart-discount and an empty tier list from
\* GET /product/:productId.
C7_NoTiersUnlessApproved ==
  /\ (IsCart /\ "pro-pricing" \notin req.customer.tags) =>
       resp.type # "tier" /\ resp.discount = 0 /\ resp.sortedTiers = <<>>
  /\ (IsProduct /\ "pro-pricing" \notin req.customer.tags) => resp.tiers = <<>>

\* a pending customer asks for a product whose override carries tiers
C7_Witness ==
  /\ IsProduct
  /\ "pending-approval" \in req.customer.tags
  /\ Defined(CurrentOverride)
  /\ Len(Val(CurrentOverride).tiers) > 0
  /\ resp.tiers = <<>>

\* C8 as stated: a quantity below 1 gives exactly the result of quantity 1,
\* in tier selection and in the MOQ gate.
C8_BelowOneAsOne ==
  /\ (IsCart /\ Defined(req.quantity) /\ Val(req.quantity) < 1) =>
       LET one == CartDiscount(req.customer, pricingRule, req.productId, Some(1))
       IN /\ resp.discount = one.discount
          /\ resp.type = one.type
          /\ resp.meetsMinimum = one.meetsMinimum
  /\ (req.route = "calculate" /\ Defined(req.quantity) /\ Val(req.quantity) < 1) =>
       resp.finalPrice
         = Calculate(overlay, req.productId, req.variantId, req.regularPrice,
                     Some(1), clock).finalPrice

\* ------------------------------------------------------------------ properties: minimum order quantity
\* C5 as stated: meetsMinimum is true whenever the resolved moq is absent or
\* <= 0, whatever the quantity; false whenever 0 < quantity < moq; true
\* whenever quantity >= moq.
C5_MoqGateAsStated ==
  IsCartResolved =>
    LET moq == resp.moq
        q == Val(resp.quantity)
    IN /\ (~Defined(moq) \/ Val(moq) <= 0) => resp.meetsMinimum = Some(TRUE)
       /\ (Defined(moq) /\ 0 < q /\ q < Val(moq)) => resp.meetsMinimum = Some(FALSE)
       /\ (Defined(moq) /\ q >= Val(moq)) => resp.meetsMinimum = Some(TRUE)

\* the MOQ C6 names, 0 standing for "no minimum"
ClaimedMoq(found, accountType, customerTypes) ==
  LET override == Val(found)
      registered == {i \in 1..Len(customerTypes) : customerTypes[i].id = accountType}
  IN IF Defined(found) /\ Defined(override.customerMOQ)
        /\ accountType \in DOMAIN Val(override.customerMOQ)
     THEN Val(override.customerMOQ)[accountType]
     ELSE IF Defined(found) /\ accountType \in DOMAIN override.moq
             /\ Defined(override.moq[accountType])
     THEN Val(override.moq[accountType])
     ELSE IF registered # {}
     THEN customerTypes[CHOOSE i \in registered : TRUE].moqDefault
     ELSE 0

NoMinimumAsZero(moq) == IF Defined(moq) THEN Val(moq) ELSE 0

\* C6 as stated: the MOQ applied to a customer type is the override's per-type
\* entry for the type, else the override's legacy MOQ for the type's tag, else
\* the registry's moqDefault of the type.
C6_MoqOrderAsStated ==
  /\ IsCartResolved =>
       NoMinimumAsZero(resp.moq)
         = ClaimedMoq(CurrentOverride, resp.accountType, settings.customerTypes)
  /\ (IsProduct /\ resp.customerStatus.isLoggedIn) =>
       NoMinimumAsZero(resp.moq)
         = ClaimedMoq(CurrentOverride, resp.customerStatus.accountType,
                      settings.customerTypes)

\* ------------------------------------------------------------------ properties: base discount
\* the discount C1 names for a customer type, none when the type is unknown
ClaimedDiscount(found, accountType, customerTypes) ==
  LET override == Val(found)
      registered == {i \in 1..Len(customerTypes) : customerTypes[i].id = accountType}
  IN IF Defined(found) /\ accountType \in DOMAIN override.customerDiscounts
     THEN Some(override.customerDiscounts[accountType])
     ELSE IF Defined(found)
     THEN Some(Disc(override.value, override.type))
     ELSE IF registered # {}
     THEN Some(Disc(customerTypes[CHOOSE i \in registered : TRUE].defaultDiscount,
                    "percentage"))
     ELSE Undefined

ClaimedPrice(discount, regularPrice) ==
  IF discount.type = "fixed" THEN 100 * discount.value
  ELSE regularPrice * (100 - discount.value)

\* C1 as stated: the base discount of GET /cart-discount and of
\* GET /product/:productId is the override's per-type entry for the customer's
\* type if there is one, else the override's legacy value and type, else the
\* registry default discount of the type.
C1_BaseDiscountAsStated ==
  /\ IsCartResolved =>
       LET claimed == ClaimedDiscount(CurrentOverride, resp.accountType,
                                      settings.customerTypes)
       IN (Defined(claimed) /\ Val(claimed).type = "percentage") =>
            resp.baseDiscount = Val(claimed).value
  /\ (IsProduct /\ resp.customerStatus.isApproved) =>
       LET claimed == ClaimedDiscount(CurrentOverride,
                                      resp.customerStatus.accountType,
                                      settings.customerTypes)
       IN Defined(claimed) =>
            resp.proPrice = Some(ClaimedPrice(Val(claimed), resp.regularPrice))

\* C9: where an override's per-type discount map is non-empty, GET /products
\* and GET /product/:productId take a type's discount from the map (the
\* listing falls back to the registry default, the product page to the first
\* type's entry or to no discount) and never from the legacy value; where the
\* map is empty they use the legacy value and type.
C9_PerTypeOverLegacy ==
  /\ (req.route = "products" /\ resp.status = 200) =>
       \A p \in DOMAIN resp.products :
         LET found == FindOverride(pricingRule.productOverrides, p)
             m == Val(found).customerDiscounts
             applied == resp.products[p].appliedDiscounts
         IN Defined(found) =>
              \A id \in DOMAIN applied :
                IF DOMAIN m = {}
                THEN /\ applied[id].value = Val(found).value
                     /\ applied[id].type = Val(found).type
                ELSE IF id \in DOMAIN m
                THEN /\ applied[id].value = m[id].value
                     /\ applied[id].type = m[id].type
                ELSE /\ applied[id].type = "percentage"
                     /\ \E i \in 1..Len(settings.customerTypes) :
                          /\ settings.customerTypes[i].id = id
                          /\ settings.customerTypes[i].defaultDiscount
                               = applied[id].value
  /\ (IsProduct /\ Defined(CurrentOverride)) =>
       LET o == Val(CurrentOverride)
           m == o.customerDiscounts
           type == resp.customerStatus.accountType
       IN IF DOMAIN m = {}
          THEN resp.proPrice
                 = Some(ClaimedPrice(Disc(o.value, o.type), resp.regularPrice))
          ELSE /\ (resp.customerStatus.isApproved /\ type \in DOMAIN m) =>
                    resp.proPrice = Some(ClaimedPrice(m[type], resp.regularPrice))
               /\ resp.proPrice
                    \in {Some(ClaimedPrice(m[k], resp.regularPrice)) : k \in DOMAIN m}
                        \cup {Some(100 * resp.regularPrice)}

\* the listing shows salon's own 30% although the legacy value is 15%
C9_Witness ==
  /\ req.route = "products" /\ resp.status = 200
  /\ Defined(FindOverride(pricingRule.productOverrides, "p1"))
  /\ Val(FindOverride(pricingRule.productOverrides, "p1")).value = 15
  /\ "salon" \in DOMAIN resp.products["p1"].appliedDiscounts
  /\ resp.products["p1"].appliedDiscounts["salon"].value = 30

\* ------------------------------------------------------------------ properties: the overlay
\* the positions of the overlay's fixed_price rules that match the request
\* and have not expired
MatchingFixedPrice ==
  {i \in 1..Len(overlay.productRules) :
     LET rule == overlay.productRules[i]
     IN /\ rule.ruleType = "fixed_price"
        /\ rule.productId = req.productId
        /\ (Defined(rule.variantId) => rule.variantId = req.variantId)
        /\ (Defined(rule.expiresAt) => Val(rule.expiresAt) > clock)}

RequestQuantity ==
  IF Defined(req.quantity) /\ Val(req.quantity) # 0 THEN Val(req.quantity) ELSE 1

\* the product rules whose expiresAt is before the time of the request
ExpiredRules ==
  {i \in 1..Len(overlay.productRules) :
     /\ Defined(overlay.productRules[i].expiresAt)
     /\ Val(overlay.productRules[i].expiresAt) < clock}

\* C11: calculatePrice never applies a product rule whose expiresAt is before
\* the time of the request: the result is the result on the overlay with
\* those rules removed, and the rule reported is never one of them.
C11_ExpiredExcluded ==
  (req.route = "calculate" /\ overlay.exists) =>
    LET Live(rule) == ~(Defined(rule.expiresAt) /\ Val(rule.expiresAt) < clock)
        without == [overlay EXCEPT !.productRules = SelectSeq(@, Live)]
        expected == CalculatePrice(without, req.productId, req.variantId,
                                   req.regularPrice, RequestQuantity, clock)
    IN /\ resp.finalPrice = expected.finalPrice
       /\ resp.appliedRule = expected.appliedRule
       /\ \A i \in ExpiredRules : resp.ruleDetails # Some(overlay.productRules[i])

\* an expired fixed_price rule for the requested variant is still stored,
\* and the price is not its value
C11_Witness ==
  /\ req.route = "calculate" /\ overlay.exists
  /\ \E i \in ExpiredRules :
       /\ overlay.productRules[i].ruleType = "fixed_price"
       /\ overlay.productRules[i].variantId = req.variantId
       /\ resp.finalPrice # 100 * 100 * overlay.productRules[i].value

\* the positions of the product rules that match the request and have not
\* expired
MatchingRules ==
  {i \in 1..Len(overlay.productRules) :
     LET rule == overlay.productRules[i]
     IN /\ rule.productId = req.productId
        /\ (Defined(rule.variantId) => rule.variantId = req.variantId)
        /\ (Defined(rule.expiresAt) => Val(rule.expiresAt) > clock)}

FirstPosition(positions) == CHOOSE i \in positions : \A j \in positions : i <= j

\* no stored tier rule has a tier the requested quantity reaches
NoTierReached ==
  \A k \in 1..Len(overlay.tierRules) :
    \A t \in 1..Len(overlay.tierRules[k].tiers) :
      overlay.tierRules[k].tiers[t].quantity > RequestQuantity

\* the pre-tier price C12 names, in 1/(100*100) of the currency unit, and
\* the rule it comes from
ClaimedPreTier ==
  IF MatchingFixedPrice # {}
  THEN [price |-> 100 * 100 * overlay.productRules[FirstPosition(MatchingFixedPrice)].value,
        applied |-> "fixed_price"]
  ELSE IF MatchingRules # {}
  THEN LET rule == overlay.productRules[FirstPosition(MatchingRules)]
       IN [price |-> IF rule.ruleType = "percentage"
                     THEN 100 * req.regularPrice * (100 - rule.value)
                     ELSE IF req.regularPrice > rule.value
                     THEN 100 * 100 * (req.regularPrice - rule.value)
                     ELSE 0,
           applied |-> rule.ruleType]
  ELSE IF overlay.baseDiscount > 0
  THEN [price |-> 100 * req.regularPrice * (100 - overlay.baseDiscount),
        applied |-> "base_discount"]
  ELSE [price |-> 100 * 100 * req.regularPrice, applied |-> "null"]

ReachedTiers ==
  {kt \in UNION {{<<k, t>> : t \in 1..Len(overlay.tierRules[k].tiers)} :
                   k \in 1..Len(overlay.tierRules)} :
     LET rule == overlay.tierRules[kt[1]]
     IN /\ rule.appliesTo = "all_products" \/ rule.productId = Some(req.productId)
        /\ rule.tiers[kt[2]].quantity <= RequestQuantity}

TierAt(kt) == overlay.tierRules[kt[1]].tiers[kt[2]]

\* a tier's discount taken off a price in 1/(100*100) of the currency unit
ClaimedTierPrice(tier, price) ==
  IF tier.discountType = "percentage"
  THEN (price * (100 - tier.discount)) \div 100
  ELSE IF price > 100 * 100 * tier.discount
  THEN price - 100 * 100 * tier.discount
  ELSE 0

\* C13 as stated: among all tier rules that apply to the product, the tier
\* applied is the one with the greatest quantity not exceeding the requested
\* quantity, and its discount is applied on top of the price computed so far,
\* for any number and order of stored tier rules.
C13_TierStepAsStated ==
  (req.route = "calculate" /\ overlay.exists /\ MatchingFixedPrice = {}) =>
    IF ReachedTiers = {}
    THEN resp.finalPrice = ClaimedPreTier.price
    ELSE \E best \in ReachedTiers :
           /\ \A kt \in ReachedTiers : TierAt(kt).quantity <= TierAt(best).quantity
           /\ resp.finalPrice = ClaimedTierPrice(TierAt(best), ClaimedPreTier.price)

\* C14: the finalPrice calculatePrice returns is never below 0, for every
\* overlay the rule-management routes produce and every quantity.
C14_PriceFloor ==
  req.route = "calculate" => resp.finalPrice >= 0

\* a percentage rule raised to 150% by an update applies, and the price is 0
C14_Witness ==
  /\ req.route = "calculate" /\ overlay.exists
  /\ MatchingFixedPrice = {}
  /\ MatchingRules # {}
  /\ overlay.productRules[FirstPosition(MatchingRules)].ruleType = "percentage"
  /\ overlay.productRules[FirstPosition(MatchingRules)].value = 150
  /\ resp.finalPrice = 0

\* ------------------------------------------------------------------ C15
\* the price the claim gives a percentage discount d: regularPrice * (1 - d/100),
\* clamped to 0 when that would be negative (hundredths)
ClaimedPercentagePrice(regularPrice, d) ==
  IF d >= PctScale THEN 0 ELSE regularPrice * (PctScale - d)

\* the stored override's legacy discount when it is the one the type engine
\* prices with (no per-type discount map), if it is a percentage
LegacyPercentage ==
  LET found == FindOverride(pricingRule.productOverrides, "p1")
  IN IF Defined(found) /\ Cardinality(DOMAIN Val(found).customerDiscounts) = 0
        /\ Val(found).type = "percentage"
     THEN Some(Val(found).value) ELSE Undefined

\* C15 as stated: in GET /products and GET /product/:productId a percentage
\* discount d gives regularPrice * (1 - d/100), d = 100 gives 0, and the price
\* returned is never negative (a negative effective price is clamped to 0).
C15_PercentagePriceAsStated ==
  /\ (req.route = "product" /\ resp.success)
       => /\ Val(resp.proPrice) >= 0
          /\ Defined(LegacyPercentage)
               => Val(resp.proPrice)
                    = ClaimedPercentagePrice(resp.regularPrice, Val(LegacyPercentage))
  /\ (req.route = "products" /\ resp.status = 200)
       => \A p \in DOMAIN resp.products :
            /\ resp.products[p].proPrice >= 0
            /\ Defined(LegacyPercentage)
                 => resp.products[p].proPrice
                      = ClaimedPercentagePrice(resp.products[p].regularPrice,
                                               Val(LegacyPercentage))

\* ------------------------------------------------------------------ C16
IsListing == req.route = "products" /\ resp.status = 200

\* the discount of the first registry type as C16 states it: its per-type
\* entry, else its registry default
FirstTypeDiscountAsStated(found, customerTypes) ==
  LET firstType == customerTypes[1]
  IN IF Defined(found) /\ firstType.id \in DOMAIN Val(found).customerDiscounts
     THEN Val(found).customerDiscounts[firstType.id]
     ELSE Disc(firstType.defaultDiscount, "percentage")

\* C16 as stated: GET /products computes each display price from the first
\* customer type in registry order: that type's per-type override if the
\* override has one, else that type's registry default discount.
C16_DisplayPriceAsStated ==
  (IsListing /\ Len(settings.customerTypes) > 0) =>
    \A p \in DOMAIN resp.products :
      resp.products[p].proPrice
        = ClaimedPrice(FirstTypeDiscountAsStated(
                         FindOverride(pricingRule.productOverrides, p),
                         settings.customerTypes),
                       resp.products[p].regularPrice)

\* C16 amended: the display price of GET /products is computed from the first
\* customer type in registry order and from no other type: where the override
\* has a non-empty per-type discount map, from that type's entry in it, else
\* from that type's registry default; where the override has no per-type
\* discounts, from the override's legacy value and type; where there is no
\* override, from that type's registry default (no discount when the registry
\* is empty).
C16_DisplayPrice ==
  IsListing =>
    \A p \in DOMAIN resp.products :
      LET found == FindOverride(pricingRule.productOverrides, p)
          types == settings.customerTypes
          discount ==
            IF Defined(found) /\ DOMAIN Val(found).customerDiscounts # {}
            THEN FirstTypeDiscountAsStated(found, types)
            ELSE IF Defined(found)
            THEN Disc(Val(found).value, Val(found).type)
            ELSE IF Len(types) > 0
            THEN Disc(types[1].defaultDiscount, "percentage")
            ELSE Disc(0, "percentage")
      IN resp.products[p].proPrice
           = ClaimedPrice(discount, resp.products[p].regularPrice)

\* the registry lists salon before student, the override has a per-type
\* discount for student only, and the listing shows the price at salon's
\* registry default of 20%
C16_Witness ==
  /\ IsListing
  /\ settings.customerTypes = <<Salon, Student>>
  /\ Defined(FindOverride(pricingRule.productOverrides, "p1"))
  /\ DOMAIN Val(FindOverride(pricingRule.productOverrides, "p1")).customerDiscounts
       = {"student"}
  /\ resp.products["p1"].proPrice = 40 * (100 - 20)

\* ------------------------------------------------------------------ C17
\* C17 as stated: price resolution is total: GET /products,
\* GET /product/:productId, GET /cart-discount and calculatePrice return a
\* defined price or discount and never end in a thrown error, also when an
\* override with a non-empty per-type discount map meets an empty registry.
C17_TotalAsStated ==
  /\ req.route = "products"
       => /\ resp.status = 200
          /\ \A p \in DOMAIN resp.products : resp.products[p].proPrice \in Int
  /\ IsProduct => Defined(resp.proPrice)
  /\ IsCart => resp.discount \in Int
  /\ req.route = "calculate" => resp.finalPrice \in Int

\* ------------------------------------------------------------------ C18
\* the positions of the registry entries whose tag the customer carries
TaggedEntries(customerTypes, tags) ==
  {i \in 1..Len(customerTypes) : customerTypes[i].tag \in tags}

\* the id of the earliest of them
ClaimedTypeId(customerTypes, tags) ==
  LET hits == TaggedEntries(customerTypes, tags)
  IN customerTypes[CHOOSE i \in hits : \A j \in hits : i <= j].id

\* C18 as stated, for GET /cart-discount and GET /product/:productId: the
\* customer type assigned to a customer is the first registry entry, in
\* registry order, whose tag is in the customer's tag set; with tags of
\* several registry types the earliest registry entry wins.
C18_ClassifierAsStated ==
  /\ (IsCartResolved
        /\ TaggedEntries(settings.customerTypes, req.customer.tags) # {})
       => resp.accountType
            = ClaimedTypeId(settings.customerTypes, req.customer.tags)
  /\ (IsProduct /\ resp.customerStatus.isLoggedIn
        /\ TaggedEntries(settings.customerTypes, req.customer.tags) # {})
       => resp.customerStatus.accountType
            = ClaimedTypeId(settings.customerTypes, req.customer.tags)

\* ------------------------------------------------------------------ C19
\* the registry entry a configured guest pricing type names, by tag or id
GuestTypeOf(customerTypes, guestPricingType) ==
  LET Named(t) == t.tag = guestPricingType \/ t.id = guestPricingType
  IN FirstOf(SelectSeq(customerTypes, Named))

\* C19 as stated, for a GET /product/:productId that follows the request
\* configuring the guest pricing type: when the requester has no approved
\* matching customer type and a guest pricing type is configured, the price
\* shown is computed from the guest pricing type's discount, whatever the
\* requester's approval state.
C19_GuestTypeAsStated ==
  [][(/\ req.route = "settings" /\ Defined(req.guestPricingType)
      /\ req'.route = "product" /\ resp'.success /\ resp'.hasOverride)
     => LET m == Val(FindOverride(pricingRule'.productOverrides,
                                  req'.productId)).customerDiscounts
            guestType == GuestTypeOf(settings'.customerTypes,
                                     Val(req.guestPricingType))
            status == resp'.customerStatus
        IN (/\ Defined(guestType) /\ Val(guestType).id \in DOMAIN m
            /\ ~(status.isApproved /\ status.accountType \in DOMAIN m))
           => Val(resp'.proPrice)
                = ClaimedPrice(m[Val(guestType).id], resp'.regularPrice)]_vars

\* ------------------------------------------------------------------ C20
\* what a payload element of POST /bulk-update sent is in the stored override
SentIsStored(update, override) ==
  /\ Defined(update.typeDiscounts)
       => /\ override.customerDiscounts = Val(update.typeDiscounts)
          /\ ~Defined(update.value) => override.value = 0
          /\ ~Defined(update.type) => override.type = "percentage"
  /\ Defined(update.moq)
       => \A k \in DOMAIN Val(update.moq) :
            Defined(Val(update.moq)[k])
              => /\ Defined(override.customerMOQ)
                 /\ Get(Val(override.customerMOQ), k) = Val(update.moq)[k]
  /\ Defined(update.customerMOQ)
       => \A k \in DOMAIN Val(update.customerMOQ) :
            /\ Defined(override.customerMOQ)
            /\ Get(Val(override.customerMOQ), k) = Some(Val(update.customerMOQ)[k])
  /\ Defined(update.typeTiers)
       => \A k \in DOMAIN Val(update.typeTiers) :
            Len(Val(update.typeTiers)[k]) > 0
              => /\ Defined(override.customerTiers)
                 /\ Get(Val(override.customerTiers), k)
                      = Some(Val(update.typeTiers)[k])

\* C20 as stated: bulk update is lossless: every per-type discount, per-type
\* MOQ and per-type tier list sent in a POST /bulk-update payload is stored
\* and is what the pricing routes read afterwards, and per-type discounts
\* sent without a global value are stored with value = 0 and
\* type = percentage.
C20_LosslessAsStated ==
  req.route = "bulk-update" =>
    \A i \in 1..Len(req.products) :
      LET found == FindOverride(pricingRule.productOverrides,
                                req.products[i].productId)
      IN Defined(found) /\ SentIsStored(req.products[i], Val(found))

\* ------------------------------------------------------------------ C21
\* C21 as stated: after any completed write to the customer's overlay (add,
\* update or delete of a product rule; add or delete of a tier rule) the
\* cache entry is invalidated, so GET /customer/:customerId never returns a
\* response that predates the write: the rules it returns are the stored ones.
C21_InvalidatedAsStated ==
  req.route = "customer" =>
    /\ resp.productRules = overlay.productRules
    /\ resp.tierRules = overlay.tierRules

\* ------------------------------------------------------------------ C22
\* C22 as stated: after any sequence of POST and PUT product-rule requests
\* every stored product rule has a ruleType in {percentage, fixed_amount,
\* fixed_price} and a value > 0, and every stored percentage rule has a value
\* of at most 100.
C22_ValidRulesAsStated ==
  \A i \in 1..Len(overlay.productRules) :
    LET rule == overlay.productRules[i]
    IN /\ rule.ruleType \in {"percentage", "fixed_amount", "fixed_price"}
       /\ rule.value > 0
       /\ rule.ruleType = "percentage" => rule.value <= 100

\* ------------------------------------------------------------------ C23
\* the overrides stored for a product, in list order
OverridesOf(overrides, productId) ==
  LET Of(p) == p.productId = productId
  IN SelectSeq(overrides, Of)

\* the products a request of POST /reset or DELETE /product/:productId names
ResetIds(request) ==
  IF request.route = "reset" THEN request.productIds ELSE {request.productId}

C25_OneEntryPerProduct ==
  \A p \in {"p1", "p2"} : Len(OverridesOf(pricingRule.productOverrides, p)) <= 1

\* a bulk payload named p1 twice (a fixed discount, then an MOQ) and the one
\* stored entry of p1 carries both
C25_Witness ==
  /\ req.route = "bulk-update" /\ Len(req.products) = 2
  /\ req.products[1].productId = "p1" /\ req.products[2].productId = "p1"
  /\ Len(OverridesOf(pricingRule.productOverrides, "p1")) = 1
  /\ OverridesOf(pricingRule.productOverrides, "p1")[1].type = "fixed"
  /\ OverridesOf(pricingRule.productOverrides, "p1")[1].customerMOQ
       = Some(MapOf("salon", 2))

\* ------------------------------------------------------------------ C24
\* both handlers saved, and neither loaded after the other's save
Raced ==
  \A w \in Writers : writers[w].pc = "saved" /\ ~writers[w].afterSave

\* the complete override of product p a handler built from the copy it loaded
BuiltBy(w, p) ==
  StoredOverride(
    Val(FindOverride(ApplyUpdates(writers[w].loaded.productOverrides,
                                  writers[w].products), p)))

\* C24 as stated: two POST /bulk-update requests on one product that
\* interleave their load, modify and save steps race last-writer-wins: the
\* stored override afterwards is the complete override written by one of
\* the two, never a mix of both and never two entries.
C24_LastWriterWinsAsStated ==
  \A p \in {"p1", "p2"} :
    (Raced /\ \A w \in Writers : writers[w].products[1].productId = p)
      => OverridesOf(pricingRule.productOverrides, p)
           \in {<<BuiltBy(w, p)>> : w \in Writers}

\* ------------------------------------------------------------------ the overlay's rules per product and variant
\* bodies of PUT product-rule: req.body is handed whole to Object.assign, so
\* a body may carry any path of the rule, its variantId included
VariantUpdates ==
  {[NoUpdates EXCEPT !.value = Some(20)],
   [NoUpdates EXCEPT !.variantId = Some(Some("v1"))],
   [NoUpdates EXCEPT !.variantId = Some(Undefined)]}

NextRules ==
  \/ PostProductRule({RuleBody(Undefined, "percentage", 50, Undefined),
                      RuleBody(Undefined, "fixed_price", 10, Undefined),
                      RuleBody(Some("v1"), "fixed_price", 30, Undefined),
                      RuleBody(Some("v1"), "percentage", 40, Undefined)})
  \/ PutProductRule(VariantUpdates)
  \/ DeleteProductRule
  \/ GetCustomer({{"salon"}})

SpecRules == Init /\ [][NextRules]_vars

\* C26: after any sequence of add, update and remove operations on a
\* customer's overlay, no two stored product rules share the same
\* (productId, variantId) pair.
C26_UniqueRulesAsStated ==
  \A i, j \in 1..Len(overlay.productRules) :
    (/\ overlay.productRules[i].productId = overlay.productRules[j].productId
     /\ overlay.productRules[i].variantId = overlay.productRules[j].variantId)
    => i = j

\* ------------------------------------------------------------------ actions: the customers' approval status
\* how the calls of one request to Shopify end: all succeed, the GET of the
\* customer fails, or the write (PUT or DELETE) fails
Outcomes == {"ok", "get", "put"}

\* newTags of POST /api/admin/update-customer-status
NewTags(action, currentTags) ==
  CASE action = "approve" ->
         (currentTags \ {"pending-approval", "archived"}) \cup {"pro-pricing"}
    [] action = "reject" ->
         (currentTags \ {"pending-approval", "archived"}) \cup {"rejected"}
    [] action = "archive" ->
         (currentTags \ {"pending-approval"}) \cup {"archived"}

\* POST /api/admin/update-customer-status
UpdateCustomerStatus(actions) ==
  \E customerId \in CustomerIds, action \in actions, outcome \in Outcomes :
    /\ req' = [route |-> "update-customer-status", customerId |-> customerId,
                action |-> action]
    /\ IF ~shopify[customerId].exists \/ outcome # "ok"
       THEN /\ resp' = [route |-> "update-customer-status", status |-> 500]
            /\ UNCHANGED shopify
       ELSE IF action = "delete"
       THEN /\ shopify' = [shopify EXCEPT ![customerId] = Deleted]
            /\ resp' = [route |-> "update-customer-status", status |-> 200]
       ELSE /\ shopify' = [shopify EXCEPT ![customerId].tags = NewTags(action, @)]
            /\ resp' = [route |-> "update-customer-status", status |-> 200]
    /\ UNCHANGED <<pricingRule, settings, overlay, cache, clock, writers>>

\* POST /api/check-login-status
CheckLoginStatus ==
  \E customerId \in CustomerIds :
    /\ req' = [route |-> "check-login-status", customerId |-> customerId]
    /\ resp' =
         IF ~shopify[customerId].exists
         THEN [route |-> "check-login-status", canLogin |-> FALSE,
               reason |-> "no_account"]
         ELSE IF "pending-approval" \in shopify[customerId].tags
         THEN [route |-> "check-login-status", canLogin |-> FALSE,
               reason |-> "pending_approval"]
         ELSE IF "rejected" \in shopify[customerId].tags
         THEN [route |-> "check-login-status", canLogin |-> FALSE,
               reason |-> "rejected"]
         ELSE [route |-> "check-login-status", canLogin |-> TRUE,
               reason |-> IF "pro-pricing" \in shopify[customerId].tags
                          THEN "professional" ELSE "consumer"]
    /\ UNCHANGED <<pricingRule, settings, overlay, cache, clock, writers, shopify>>

\* ------------------------------------------------------------------ actions: the batch routes
MaxBatch == 2        \* customer ids in one batch request

\* the customerIds of a batch request
IdLists == UNION {[1..n -> CustomerIds] : n \in 0..MaxBatch}
OutcomeLists(n) == [1..n -> Outcomes]

\* what one iteration of a batch loop writes for a customer it has fetched
BatchStep(kind, customer) ==
  CASE kind = "approve" ->
         [customer EXCEPT
            !.tags = (@ \ {"pending-approval"}) \cup {"pro-pricing"}]
    [] kind = "reject" ->
         [customer EXCEPT
            !.tags = (@ \ {"pending-approval"}) \cup {"rejected"}]
    [] kind = "archive" -> [customer EXCEPT !.tags = @ \cup {"archived"}]
    [] kind = "delete" -> Deleted

\* does the iteration throw: the GET fails (or finds no customer), or the
\* write fails; batch-archive writes nothing for an archived customer
Throws(kind, customer, outcome) ==
  \/ ~customer.exists
  \/ outcome = "get"
  \/ /\ outcome = "put"
     /\ ~(kind = "archive" /\ "archived" \in customer.tags)

\* a loop that gives up at the first customer that fails
RECURSIVE StopAtFirstFailure(_, _, _, _)
StopAtFirstFailure(kind, store, customerIds, outcomes) ==
  IF customerIds = <<>>
  THEN [store |-> store, success |-> 0, errors |-> <<>>]
  ELSE IF Throws(kind, store[Head(customerIds)], Head(outcomes))
  THEN [store |-> store, success |-> 0, errors |-> <<Head(customerIds)>>]
  ELSE LET rest == StopAtFirstFailure(
                     kind,
                     [store EXCEPT ![Head(customerIds)] = BatchStep(kind, @)],
                     Tail(customerIds), Tail(outcomes))
       IN [rest EXCEPT !.success = @ + 1]

\* for (const customerId of customerIds) { try { ... } catch { errors.push } }
RECURSIVE ProcessBatch(_, _, _, _)
ProcessBatch(kind, store, customerIds, outcomes) ==
  IF customerIds = <<>>
  THEN [store |-> store, success |-> 0, errors |-> <<>>]
  ELSE LET customerId == Head(customerIds)
           failed == Throws(kind, store[customerId], Head(outcomes))
           next == IF failed THEN store
                   ELSE [store EXCEPT ![customerId] = BatchStep(kind, @)]
           rest == ProcessBatch(kind, next, Tail(customerIds), Tail(outcomes))
       IN [store |-> rest.store,
           success |-> rest.success + (IF failed THEN 0 ELSE 1),
           errors |-> IF failed THEN <<customerId>> \o rest.errors
                      ELSE rest.errors]

\* the four batch handlers share their frame: 400 for an empty list, else the
\* loop and a 200 with the counts
Batch(kind, idLists) ==
  \E customerIds \in idLists :
    \E outcomes \in OutcomeLists(Len(customerIds)) :
      /\ req' = [route |-> "batch", kind |-> kind, customerIds |-> customerIds]
      /\ IF customerIds = <<>>
         THEN /\ resp' = [route |-> "batch", status |-> 400]
              /\ UNCHANGED shopify
         ELSE LET results == ProcessBatch(kind, shopify, customerIds, outcomes)
              IN /\ shopify' = results.store
                 /\ resp' = [route |-> "batch", status |-> 200,
                             success |-> results.success,
                             total |-> Len(customerIds),
                             errors |-> results.errors]
      /\ UNCHANGED <<pricingRule, settings, overlay, cache, clock, writers>>

\* POST /api/admin/batch-approve
BatchApprove(idLists) == Batch("approve", idLists)
\* POST /api/admin/batch-reject
BatchReject(idLists) == Batch("reject", idLists)
\* POST /api/admin/batch-archive
BatchArchive(idLists) == Batch("archive", idLists)
\* POST /api/admin/batch-delete
BatchDelete(idLists) == Batch("delete", idLists)

NextStatus ==
  \/ UpdateCustomerStatus({"approve", "reject", "archive", "delete"})
  \/ BatchApprove(Single(CustomerIds))
  \/ BatchReject(Single(CustomerIds))
  \/ CheckLoginStatus

SpecStatus == Init /\ [][NextStatus]_vars

\* ------------------------------------------------------------------ C27
ReservedTags == {"pro-pricing", "pending-approval", "rejected"}

\* C27: after any sequence of approve, reject and archive actions on a
\* customer, the customer's tag set holds at most one of the reserved tags
\* pro-pricing, pending-approval and rejected.
C27_OneApprovalTagAsStated ==
  \A c \in CustomerIds :
    shopify[c].exists =>
      Cardinality(shopify[c].tags \cap ReservedTags) <= 1

\* ------------------------------------------------------------------ actions: assigning a customer type
\* settings.customerTypes.find((t) => t.id === customerTypeId)
FindTypeById(customerTypes, customerTypeId) ==
  LET hits == {i \in 1..Len(customerTypes) : customerTypes[i].id = customerTypeId}
  IN IF hits = {} THEN Undefined
     ELSE Some(customerTypes[CHOOSE i \in hits : \A j \in hits : i <= j])

\* POST /api/admin/assign-customer-type
AssignCustomerType(typeIds) ==
  \E customerId \in CustomerIds, customerTypeId \in typeIds,
     outcome \in Outcomes :
    LET customerType == FindTypeById(settings.customerTypes, customerTypeId)
        allTypeTags == {settings.customerTypes[i].tag :
                          i \in 1..Len(settings.customerTypes)}
    IN /\ req' = [route |-> "assign-customer-type", customerId |-> customerId,
                   customerTypeId |-> customerTypeId]
       /\ IF ~Defined(customerType)
          THEN /\ resp' = [route |-> "assign-customer-type", status |-> 400]
               /\ UNCHANGED shopify
          ELSE IF ~shopify[customerId].exists \/ outcome # "ok"
          THEN /\ resp' = [route |-> "assign-customer-type", status |-> 500]
               /\ UNCHANGED shopify
          ELSE /\ shopify' = [shopify EXCEPT ![customerId].tags =
                                (@ \ allTypeTags) \cup {Val(customerType).tag}]
               /\ resp' = [route |-> "assign-customer-type", status |-> 200]
       /\ UNCHANGED <<pricingRule, settings, overlay, cache, clock, writers>>

\* routes/shopify.js names a type by the _id Mongoose gave its sub-document;
\* a request carries the _id of the type at a position of the registry, or
\* an _id no type has (a position past the end)
FindTypeByObjectId(customerTypes, customerTypeId) ==
  IF customerTypeId \in 1..Len(customerTypes)
  THEN Some(customerTypes[customerTypeId]) ELSE Undefined

\* t.tagName: CustomerTypeSchema declares id, name and tag; a customer type
\* has no tagName, the read gives undefined
TagName(customerType) == Undefined

\* newTags.join(", ") as Shopify stores it: an undefined element joins as an
\* empty string, which is no tag
AssignedTags(customerTypes, customerType, currentTags) ==
  LET customerTypeTags == {TagName(customerTypes[i]) : i \in 1..Len(customerTypes)}
      nonTypeTags == {tag \in currentTags : Some(tag) \notin customerTypeTags}
  IN nonTypeTags \cup (IF Defined(TagName(customerType))
                        THEN {Val(TagName(customerType))} ELSE {})

\* POST /api/shopify/customers/assign-type
AssignType(positions) ==
  \E customerId \in CustomerIds, customerTypeId \in positions,
     outcome \in Outcomes :
    LET customerType == FindTypeByObjectId(settings.customerTypes, customerTypeId)
    IN /\ req' = [route |-> "assign-type", customerIds |-> <<customerId>>,
                   customerTypeId |-> customerTypeId]
       /\ IF ~Defined(customerType)
          THEN /\ resp' = [route |-> "assign-type", status |-> 404]
               /\ UNCHANGED shopify
          ELSE IF ~shopify[customerId].exists \/ outcome # "ok"
          THEN /\ resp' = [route |-> "assign-type", status |-> 500]
               /\ UNCHANGED shopify
          ELSE /\ shopify' = [shopify EXCEPT ![customerId].tags =
                                AssignedTags(settings.customerTypes,
                                             Val(customerType), @)]
               /\ resp' = [route |-> "assign-type", status |-> 200,
                           errors |-> <<>>]
       /\ UNCHANGED <<pricingRule, settings, overlay, cache, clock, writers>>

\* the loop of POST /api/shopify/customers/bulk-assign
RECURSIVE AssignEach(_, _, _, _, _)
AssignEach(customerTypes, customerType, store, customerIds, outcomes) ==
  IF customerIds = <<>>
  THEN [store |-> store, success |-> 0, errors |-> <<>>]
  ELSE LET customerId == Head(customerIds)
           failed == ~store[customerId].exists \/ Head(outcomes) # "ok"
           next == IF failed THEN store
                   ELSE [store EXCEPT ![customerId].tags =
                           AssignedTags(customerTypes, customerType, @)]
           rest == AssignEach(customerTypes, customerType, next,
                              Tail(customerIds), Tail(outcomes))
       IN [store |-> rest.store,
           success |-> rest.success + (IF failed THEN 0 ELSE 1),
           errors |-> IF failed THEN <<customerId>> \o rest.errors
                      ELSE rest.errors]

\* POST /api/shopify/customers/bulk-assign
BulkAssign(idLists, positions) ==
  \E customerIds \in idLists, customerTypeId \in positions :
    \E outcomes \in OutcomeLists(Len(customerIds)) :
      LET customerType == FindTypeByObjectId(settings.customerTypes, customerTypeId)
      IN /\ req' = [route |-> "bulk-assign", customerIds |-> customerIds,
                     customerTypeId |-> customerTypeId]
         /\ IF ~Defined(customerType)
            THEN /\ resp' = [route |-> "bulk-assign", status |-> 404]
                 /\ UNCHANGED shopify
            ELSE LET results == AssignEach(settings.customerTypes,
                                           Val(customerType), shopify,
                                           customerIds, outcomes)
                 IN /\ shopify' = results.store
                    /\ resp' = [route |-> "bulk-assign", status |-> 200,
                                updated |-> results.success,
                                total |-> Len(customerIds),
                                errors |-> results.errors]
         /\ UNCHANGED <<pricingRule, settings, overlay, cache, clock, writers>>

NextAssign ==
  \/ PutSettings({<<Salon, Student>>}, {Undefined})
  \/ AssignCustomerType({"student", "salon", "vip"})
  \/ AssignType(1..3)
  \/ BulkAssign(IdLists, 1..3)
  \/ UpdateCustomerStatus({"approve", "reject"})

SpecAssign == Init /\ [][NextAssign]_vars

\* ------------------------------------------------------------------ C28
RegistryTags == {settings.customerTypes[i].tag : i \in 1..Len(settings.customerTypes)}

\* the type a request names: by id on /api/admin, by _id on /api/shopify
NamedType(request) ==
  IF request.route = "assign-customer-type"
  THEN Val(FindTypeById(settings.customerTypes, request.customerTypeId))
  ELSE settings.customerTypes[request.customerTypeId]

\* the customers a successful assign request has written
AssignedCustomers ==
  IF resp'.route = "assign-customer-type" /\ resp'.status = 200
  THEN {req'.customerId}
  ELSE IF resp'.route \in {"assign-type", "bulk-assign"} /\ resp'.status = 200
  THEN {req'.customerIds[i] : i \in 1..Len(req'.customerIds)}
       \ {resp'.errors[i] : i \in 1..Len(resp'.errors)}
  ELSE {}

\* C28: assigning a customer type leaves the customer with exactly one
\* registry type tag, the assigned one: every other registry type tag is
\* removed and every tag that is not a registry type tag is kept unchanged.
C28_ExactlyOneTypeTagAsStated ==
  [][\A c \in AssignedCustomers :
       /\ shopify'[c].tags \cap RegistryTags = {NamedType(req').tag}
       /\ shopify'[c].tags \ RegistryTags = shopify[c].tags \ RegistryTags]_vars

NextBatch ==
  \/ BatchApprove(IdLists)
  \/ BatchReject(IdLists)
  \/ BatchArchive(IdLists)
  \/ BatchDelete(IdLists)
  \/ CheckLoginStatus

SpecBatch == Init /\ [][NextBatch]_vars

\* ------------------------------------------------------------------ C29
Occurrences(seq, c) == Cardinality({i \in 1..Len(seq) : seq[i] = c})

\* C29: a batch operation processes every customer id of the list even when
\* an earlier id fails: a customer whose calls all failed is left unchanged
\* and reported in errors, a customer with a call that did not fail is
\* written, and the success count plus the number of errors equals the
\* number of ids given.
C29_BatchCompletes ==
  [][(resp'.route = "batch" /\ resp'.status = 200) =>
       /\ resp'.success + Len(resp'.errors) = Len(req'.customerIds)
       /\ resp'.total = Len(req'.customerIds)
       /\ \A c \in CustomerIds :
            IF Occurrences(resp'.errors, c) = Occurrences(req'.customerIds, c)
            THEN shopify'[c] = shopify[c]
            ELSE shopify'[c] = BatchStep(req'.kind, shopify[c])]_vars

\* a batch-approve whose first customer failed and whose second was approved
C29_Witness ==
  /\ resp.route = "batch" /\ resp.status = 200 /\ req.kind = "approve"
  /\ Len(req.customerIds) = 2
  /\ req.customerIds[1] # req.customerIds[2]
  /\ resp.errors = <<req.customerIds[1]>>
  /\ resp.success = 1
  /\ "pro-pricing" \notin shopify[req.customerIds[1]].tags
  /\ "pro-pricing" \in shopify[req.customerIds[2]].tags

\* ------------------------------------------------------------------ the migration of the legacy MOQ
\* the order in which migrate looks at the legacy moq keys
MigratedKeys == <<"student", "esthetician", "salon">>

\* override.moq[key] != null && override.moq[key] > 0
HasLegacyMoq(override, key) ==
  Defined(override.moq[key]) /\ Val(override.moq[key]) > 0

\* the body of migrate's inner loop for one override
MigrateOverride(override) ==
  IF Len(override.enabledTypes) > 0
  THEN override
  ELSE LET Enabled(key) == HasLegacyMoq(override, key)
           enabledTypes == SelectSeq(MigratedKeys, Enabled)
       IN [override EXCEPT
             !.enabledTypes = enabledTypes,
             !.customerMOQ =
                Some([k \in {key \in LegacyMoqKeys : HasLegacyMoq(override, key)}
                        |-> Val(override.moq[k])])]

\* migrate's inner loop over rule.productOverrides
MigrateOverrides(overrides) ==
  [i \in 1..Len(overrides) |-> MigrateOverride(overrides[i])]

\* updated: the overrides that were not skipped
Updated(overrides) ==
  Cardinality({i \in 1..Len(overrides) : Len(overrides[i].enabledTypes) = 0})

\* migrate(): every PricingRule document, saved when an override was updated
Migrate ==
  /\ req' = [route |-> "migrate"]
  /\ resp' = [route |-> "migrate",
              totalUpdated |-> IF pricingRule.exists
                               THEN Updated(pricingRule.productOverrides) ELSE 0]
  /\ IF pricingRule.exists /\ Updated(pricingRule.productOverrides) > 0
     THEN pricingRule' =
            [pricingRule EXCEPT
               !.productOverrides = SaveOverrides(MigrateOverrides(@))]
     ELSE UNCHANGED pricingRule
  /\ UNCHANGED <<settings, overlay, cache, clock, writers, shopify>>

MigrationUpdates ==
  Single(DiscountUpdates("p1", {Disc(15, "percentage")}))
  \cup Single({[NoUpdate("p1") EXCEPT !.moq = Some(MapOf("salon", Some(2)))],
               [NoUpdate("p2") EXCEPT !.moq = Some(MapOf("student", Some(0)))]})

NextMigrate ==
  \/ BulkUpdate(MigrationUpdates)
  \/ PutProduct({"p1", "p2"}, PutBodies)
  \/ Migrate
  \/ GetProductsReq

SpecMigrate == Init /\ [][NextMigrate]_vars

\* ------------------------------------------------------------------ C30
\* C30: the migration keeps data that is already dynamic: an override that
\* is already migrated is skipped, an override whose per-type customerMOQ
\* map is already non-empty keeps those entries, and a second run leaves
\* every override as the first run left it.
C30_MigrationKeepsDynamicAsStated ==
  [][req'.route = "migrate" =>
       LET old == pricingRule.productOverrides
           new == pricingRule'.productOverrides
       IN /\ Len(new) = Len(old)
          /\ \A i \in 1..Len(old) :
               /\ Len(old[i].enabledTypes) > 0 => new[i] = old[i]
               /\ \A k \in DOMAIN Val(old[i].customerMOQ) :
                    /\ k \in DOMAIN Val(new[i].customerMOQ)
                    /\ Val(new[i].customerMOQ)[k] = Val(old[i].customerMOQ)[k]
          /\ MigrateOverrides(new) = new]_vars

====
